---- MODULE Spec2Model ----
(***************************************************************************)
(* Model of the storefront bot (src/bot.py): the SQLite store (products,   *)
(* cart, wardrobe, orders, order_items), the store functions add_product,  *)
(* get_cart, add_to_cart, clear_cart, add_to_wardrobe, create_order,       *)
(* list_products and the update handlers that call them.                   *)
(*                                                                         *)
(* Every store function opens its own connection.  A handler is a          *)
(* coroutine started for one update; it can be suspended at every await,   *)
(* so one step of the model is one awaited store call.  A data-changing    *)
(* statement takes SQLite's single write lock when it is executed and      *)
(* holds it until commit; its changes become visible to the other          *)
(* connections at commit.  A SELECT outside a transaction reads the        *)
(* committed tables.                                                       *)
(***************************************************************************)
EXTENDS Integers, Sequences, FiniteSets, TLC

None == "None"                  \* Python None / SQL NULL in a text or id column

\* ---------------------------------------------------------------- bounds
MaxUpdates == 3                 \* shop updates (button callbacks, payments)
MaxPosts == 2                   \* ingestion updates (forwards, posts, files)
MaxCatalog == 13                \* rows of a listed catalog

\* The updates the bot receives, numbered in the order of their arrival;
\* each is handled by a coroutine of its own.
Procs == 1 .. MaxUpdates
AllUsers == {1, 2}              \* Telegram user ids
Users == {1}                    \* the users who act in Spec

VARIABLES
    products,       \* table products: set of rows
    seq_products,   \* sqlite_sequence of products (AUTOINCREMENT)
    cart,           \* table cart: set of rows [user_id, product_id, qty]
    orders,         \* table orders: set of rows
    order_items,    \* table order_items: set of rows
    seq_orders,     \* sqlite_sequence of orders (AUTOINCREMENT)
    wardrobe,       \* table wardrobe: set of rows [user_id, product_id]
    invoices,       \* the invoices sent and not yet paid: per user, the
                    \*          sequence of their amounts
    user_data,      \* context.user_data per user: the session filters
    chat,           \* per user: the pages of product cards shown since the
                    \*          brand was chosen, and the data of the last
                    \*          "more" button
    writer,         \* the handlers whose connection holds the write lock
    pc,             \* per handler: the await it is suspended at
    frame,          \* per handler: arguments, locals and the returned value
    adds,           \* history: committed adds per (user, product) since the
                    \*          last committed DELETE on that user's cart
    gen,            \* history: per user, number of committed DELETEs that
                    \*          removed at least one cart row
    order_gen,      \* history: order id -> gen of the cart snapshot it used
    ret_ids         \* history: source pair -> the ids add_product returned
                    \*          for it, in the order of the returns

vars == <<products, seq_products, cart, orders, order_items, seq_orders,
          wardrobe, invoices, user_data, chat,
          writer, pc, frame, adds, gen, order_gen, ret_ids>>

catalogVars == <<products, seq_products, ret_ids>>
sideVars == <<wardrobe, invoices, user_data, chat>>
shopVars ==
    <<cart, orders, order_items, seq_orders, adds, gen, order_gen, sideVars>>

\* ------------------------------------------------------------ table rows
\* A row of table products (INIT_SQL; dataclass Product).
Product(id, title, price, photo_file_id, descr, category, brand, sizes, source_chat_id, source_msg_id) ==
    [id |-> id, title |-> title, price |-> price,
     photo_file_id |-> photo_file_id, descr |-> descr,
     category |-> category, brand |-> brand, sizes |-> sizes,
     source_chat_id |-> source_chat_id, source_msg_id |-> source_msg_id]

ProductIds == {p.id : p \in products}

IdleFrame == [op |-> "idle"]

\* Update h arrives: the updates before it have arrived already.
Arrives(h) == pc[h] = "idle" /\ \A g \in 1 .. h - 1 : pc[g] # "idle"

\* ------------------------------------------------------------- cart store
\* get_cart: SELECT p.id, p.title, p.price, c.qty FROM cart c JOIN products p
\*           ON p.id = c.product_id WHERE c.user_id = ?
get_cart(user_id) ==
    { [pid |-> cp[2].id, title |-> cp[2].title, price |-> cp[2].price,
       qty |-> cp[1].qty] :
      cp \in { x \in cart \X products :
                 x[2].id = x[1].product_id /\ x[1].user_id = user_id } }

\* add_to_cart with a lost increment: ON CONFLICT keeps the row as it is.
CartUpsertNoIncrement(c, user_id, product_id) ==
    IF \E r \in c : r.user_id = user_id /\ r.product_id = product_id
    THEN c
    ELSE c \cup {[user_id |-> user_id, product_id |-> product_id, qty |-> 1]}

\* add_to_cart: INSERT INTO cart VALUES(?,?,1)
\*              ON CONFLICT(user_id, product_id) DO UPDATE SET qty = qty + 1
CartUpsert(c, user_id, product_id) ==
    IF \E r \in c : r.user_id = user_id /\ r.product_id = product_id
    THEN { IF r.user_id = user_id /\ r.product_id = product_id
           THEN [r EXCEPT !.qty = @ + 1] ELSE r : r \in c }
    ELSE c \cup {[user_id |-> user_id, product_id |-> product_id, qty |-> 1]}

\* The DELETE without its WHERE clause: every user's cart is emptied.
CartDeleteAll(c, user_id) == {}

\* clear_cart: DELETE FROM cart WHERE user_id = ?
CartDelete(c, user_id) == { r \in c : r.user_id # user_id }

RECURSIVE SumLinesPriceOnly(_)
\* The total with the quantity forgotten: sum(price for ...).
SumLinesPriceOnly(items) ==
    IF items = {} THEN 0
    ELSE LET l == CHOOSE x \in items : TRUE
         IN  l.price + SumLinesPriceOnly(items \ {l})

RECURSIVE SumLines(_)
\* sum(price * qty for _, _, price, qty in items)
SumLines(items) ==
    IF items = {} THEN 0
    ELSE LET l == CHOOSE x \in items : TRUE
         IN  l.price * l.qty + SumLines(items \ {l})

\* The item rows with the columns of the snapshot taken in the wrong order:
\* the title column lands in qty, so every row is written with qty 1.
ItemRowsUnitQty(order_id, items) ==
    { [order_id |-> order_id, product_id |-> l.pid, qty |-> 1,
       price |-> l.price] : l \in items }

\* [(order_id, pid, qty, price) for (pid, _, price, qty) in items]
ItemRows(order_id, items) ==
    { [order_id |-> order_id, product_id |-> l.pid, qty |-> l.qty,
       price |-> l.price] : l \in items }

\* Committed adds of (user_id, product_id) since the last DELETE on the cart.
AddsOf(user_id, product_id) ==
    IF <<user_id, product_id>> \in DOMAIN adds
    THEN adds[<<user_id, product_id>>] ELSE 0

\* The rows a committed DELETE on user_id's cart changes in the history.
ClearHistory(user_id) ==
    /\ adds' = [k \in {x \in DOMAIN adds : x[1] # user_id} |-> adds[k]]
    /\ gen' = [gen EXCEPT ![user_id] =
                  IF \E r \in cart : r.user_id = user_id THEN @ + 1 ELSE @]

\* -------------------------------------------------------- handler control
Goto(h, label, fr) ==
    /\ pc' = [pc EXCEPT ![h] = label]
    /\ frame' = [frame EXCEPT ![h] = fr]

\* The store function returns: outcome "none" (None), "value" (ret) or
\* "error" (an exception left it), and the handler's coroutine ends.
Finish(h, outcome, ret) ==
    Goto(h, "done", [outcome |-> outcome, ret |-> ret] @@ frame[h])

\* SQLite's write lock: taken by the first data-changing statement of a
\* connection (others wait), freed by commit, rollback or close.
Acquire(h) == writer = {} /\ writer' = {h}
Release(h) == writer = {h} /\ writer' = {}

\* -------------------------------------------------- on_cb "buy:<pid>"
\* The callback of a product card's button arrives: q.answer(), then
\* add_to_cart(q.from_user.id, pid).
buy(h, user_id, product_id) ==
    /\ Arrives(h)
    /\ product_id \in ProductIds        \* the button of a listed product
    /\ Goto(h, "ac_execute",
            [op |-> "add_to_cart", user_id |-> user_id,
             product_id |-> product_id,
             adds0 |-> AddsOf(user_id, product_id)])
    /\ UNCHANGED <<catalogVars, shopVars, writer>>

\* add_to_cart: await db.execute(INSERT .. ON CONFLICT ..)
ac_execute(h) ==
    /\ pc[h] = "ac_execute"
    /\ Acquire(h)
    /\ Goto(h, "ac_commit", frame[h])
    /\ UNCHANGED <<catalogVars, shopVars>>

\* add_to_cart: await db.commit(); reply "added to cart"
ac_commit(h) ==
    /\ pc[h] = "ac_commit"
    /\ LET u == frame[h].user_id
           p == frame[h].product_id
       IN  /\ cart' = CartUpsert(cart, u, p)
           /\ adds' = [k \in DOMAIN adds \cup {<<u, p>>} |->
                         IF k = <<u, p>> THEN AddsOf(u, p) + 1 ELSE adds[k]]
    /\ Release(h)
    /\ Finish(h, "none", <<>>)
    /\ UNCHANGED <<catalogVars, orders, order_items, seq_orders, gen,
                   order_gen, sideVars>>

\* -------------------------------------------------- on_cb "clearcart"
clearcart(h, user_id) ==
    /\ Arrives(h)
    /\ Goto(h, "cc_execute", [op |-> "clear_cart", user_id |-> user_id])
    /\ UNCHANGED <<catalogVars, shopVars, writer>>

\* clear_cart: await db.execute(DELETE ..)
cc_execute(h) ==
    /\ pc[h] = "cc_execute"
    /\ Acquire(h)
    /\ Goto(h, "cc_commit", frame[h])
    /\ UNCHANGED <<catalogVars, shopVars>>

\* clear_cart: await db.commit(); reply "cart cleared"
cc_commit(h) ==
    /\ pc[h] = "cc_commit"
    /\ cart' = CartDelete(cart, frame[h].user_id)
    /\ ClearHistory(frame[h].user_id)
    /\ Release(h)
    /\ Finish(h, "none", <<>>)
    /\ UNCHANGED <<catalogVars, orders, order_items, seq_orders, order_gen,
                   sideVars>>

\* -------------------------------------------- on_cb "wardrobe:<pid>"
\* INSERT INTO wardrobe without OR IGNORE and without the primary key: every
\* add writes a row.
WardrobeInsertAlways(w, user_id, product_id) ==
    w \cup {[rowid |-> Cardinality(w) + 1, user_id |-> user_id,
             product_id |-> product_id]}

\* add_to_wardrobe: INSERT OR IGNORE INTO wardrobe(user_id, product_id)
\* on PRIMARY KEY(user_id, product_id); the table only grows, so the next
\* rowid is the number of rows plus one.
WardrobeInsert(w, user_id, product_id) ==
    IF \E r \in w : r.user_id = user_id /\ r.product_id = product_id
    THEN w
    ELSE w \cup {[rowid |-> Cardinality(w) + 1, user_id |-> user_id,
                  product_id |-> product_id]}

\* The callback of a card's wardrobe button: q.answer(), then
\* add_to_wardrobe(q.from_user.id, pid).
wardrobe_cb(h, user_id, product_id) ==
    /\ Arrives(h)
    /\ product_id \in ProductIds
    /\ Goto(h, "wd_execute",
            [op |-> "add_to_wardrobe", user_id |-> user_id,
             product_id |-> product_id])
    /\ UNCHANGED <<catalogVars, shopVars, writer>>

\* add_to_wardrobe: await db.execute(INSERT OR IGNORE ..)
wd_execute(h) ==
    /\ pc[h] = "wd_execute"
    /\ Acquire(h)
    /\ Goto(h, "wd_commit", frame[h])
    /\ UNCHANGED <<catalogVars, shopVars>>

\* add_to_wardrobe: await db.commit(); reply "saved to the wardrobe"
wd_commit(h) ==
    /\ pc[h] = "wd_commit"
    /\ wardrobe' = WardrobeInsert(wardrobe, frame[h].user_id,
                                  frame[h].product_id)
    /\ Release(h)
    /\ Finish(h, "none", <<>>)
    /\ UNCHANGED <<catalogVars, cart, orders, order_items, seq_orders, adds,
                   gen, order_gen, invoices, user_data, chat>>

\* ------------------- on_cb "checkout" / successful_payment_callback
\* Both call create_order(user_id).
checkout(h, user_id) ==
    /\ Arrives(h)
    /\ Goto(h, "co_get", [op |-> "create_order", user_id |-> user_id])
    /\ UNCHANGED <<catalogVars, shopVars, writer>>

\* The emptiness test left out: create_order goes on with an empty snapshot.
not_items_never(items) == FALSE

\* if not items
not_items(items) == items = {}

\* create_order: items = await get_cart(user_id); if not items: return None;
\*               total = sum(price * qty ...)
co_get(h) ==
    /\ pc[h] = "co_get"
    /\ LET user_id == frame[h].user_id
           items == get_cart(user_id)
           fr == [items |-> items, snap_gen |-> gen[user_id]] @@ frame[h]
       IN  IF not_items(items)
           THEN Goto(h, "done", [outcome |-> "none", ret |-> <<>>] @@ fr)
           ELSE Goto(h, "co_insert", [total |-> SumLines(items)] @@ fr)
    /\ UNCHANGED <<catalogVars, shopVars, writer>>

\* create_order: cur = await db.execute(INSERT INTO orders ..);
\*               order_id = cur.lastrowid
co_insert(h) ==
    /\ pc[h] = "co_insert"
    /\ Acquire(h)
    /\ Goto(h, "co_items", [order_id |-> seq_orders + 1] @@ frame[h])
    /\ UNCHANGED <<catalogVars, shopVars>>

\* create_order: await db.executemany(INSERT INTO order_items ..)
co_items(h) ==
    /\ pc[h] = "co_items"
    /\ writer = {h}
    /\ Goto(h, "co_commit", frame[h])
    /\ UNCHANGED <<catalogVars, shopVars, writer>>

\* The row written with INSERT OR REPLACE on a table keyed by the user: the
\* user's earlier Orders are replaced by the new one.
OrdersInsertOrReplace(tbl, order_id, user_id, total) ==
    {o \in tbl : o.user_id # user_id} \cup
        {[id |-> order_id, user_id |-> user_id, total_price |-> total,
          status |-> "NEW"]}

\* INSERT INTO orders(user_id, total_price, status) VALUES(?,?, 'NEW')
OrdersInsert(tbl, order_id, user_id, total) ==
    tbl \cup {[id |-> order_id, user_id |-> user_id, total_price |-> total,
               status |-> "NEW"]}

\* create_order: await db.commit()  -- the Order and its items become visible
co_commit(h) ==
    /\ pc[h] = "co_commit"
    /\ LET fr == frame[h]
       IN  /\ orders' = OrdersInsert(orders, fr.order_id, fr.user_id,
                                     fr.total)
           /\ order_items' = order_items \cup ItemRows(fr.order_id, fr.items)
           /\ seq_orders' = fr.order_id
           /\ order_gen' = [o \in DOMAIN order_gen \cup {fr.order_id} |->
                              IF o = fr.order_id THEN fr.snap_gen
                              ELSE order_gen[o]]
    /\ Release(h)
    /\ Goto(h, "co_clear", [committed |-> TRUE] @@ frame[h])
    /\ UNCHANGED <<catalogVars, cart, adds, gen, sideVars>>

\* create_order: await clear_cart(user_id): db.execute(DELETE ..)
co_clear(h) ==
    /\ pc[h] = "co_clear"
    /\ Acquire(h)
    /\ Goto(h, "co_clear_commit", frame[h])
    /\ UNCHANGED <<catalogVars, shopVars>>

\* clear_cart: db.commit();  create_order: return order_id, total
co_clear_commit(h) ==
    /\ pc[h] = "co_clear_commit"
    /\ cart' = CartDelete(cart, frame[h].user_id)
    /\ ClearHistory(frame[h].user_id)
    /\ Release(h)
    /\ Finish(h, "value", <<frame[h].order_id, frame[h].total>>)
    /\ UNCHANGED <<catalogVars, orders, order_items, seq_orders, order_gen,
                   sideVars>>

\* ----------------------- on_cb "checkout_pay" / successful_payment_callback
\* The callback of the pay button arrives: q.answer(), then get_cart.
checkout_pay(h, user_id) ==
    /\ Arrives(h)
    /\ Goto(h, "cp_get", [op |-> "checkout_pay", user_id |-> user_id])
    /\ UNCHANGED <<catalogVars, shopVars, writer>>

\* rows = await get_cart(..); if not rows: reply "the cart is empty";
\* total = sum(price * qty ...)
cp_get(h) ==
    /\ pc[h] = "cp_get"
    /\ LET rows == get_cart(frame[h].user_id)
       IN  IF rows = {}
           THEN Goto(h, "done", [outcome |-> "none", ret |-> <<>>,
                                 reply |-> "empty"] @@ frame[h])
           ELSE Goto(h, "cp_invoice", [total |-> SumLines(rows)] @@ frame[h])
    /\ UNCHANGED <<catalogVars, shopVars, writer>>

\* await context.bot.send_invoice(.., prices=[LabeledPrice(amount=total)]):
\* the invoice is in the user's chat, not yet paid.
cp_invoice(h) ==
    /\ pc[h] = "cp_invoice"
    /\ invoices' = [invoices EXCEPT ![frame[h].user_id] =
                       Append(@, [amount |-> frame[h].total, paid |-> FALSE])]
    /\ Finish(h, "none", <<>>)
    /\ UNCHANGED <<catalogVars, cart, orders, order_items, seq_orders, adds,
                   gen, order_gen, wardrobe, user_data, chat, writer>>

\* The user pays invoice i (precheckout_callback answers ok=True to every
\* query): the successful_payment message arrives and the handler calls
\* create_order(update.effective_user.id).
successful_payment_callback(h, user_id, i) ==
    /\ Arrives(h)
    /\ i \in 1 .. Len(invoices[user_id])
    /\ ~invoices[user_id][i].paid
    /\ invoices' = [invoices EXCEPT ![user_id][i].paid = TRUE]
    /\ Goto(h, "co_get", [op |-> "successful_payment", user_id |-> user_id,
                          paid |-> invoices[user_id][i].amount])
    /\ UNCHANGED <<catalogVars, cart, orders, order_items, seq_orders, adds,
                   gen, order_gen, wardrobe, user_data, chat, writer>>

\* A store call of the handler raises (database is locked, I/O error): the
\* exception leaves the handler, closing the connection rolls back the open
\* transaction and frees the write lock.  Nothing catches it in create_order.
ShopStoreCalls ==
    {"ac_execute", "ac_commit", "cc_execute", "cc_commit", "co_get",
     "co_insert", "co_items", "co_commit", "co_clear", "co_clear_commit"}

store_error(h) ==
    /\ pc[h] \in ShopStoreCalls
    /\ writer' = writer \ {h}
    /\ Finish(h, "error", <<>>)
    /\ UNCHANGED <<catalogVars, shopVars>>

\* The update has been processed; the coroutine is gone.
handler_exit(h) ==
    /\ pc[h] = "done"
    /\ Goto(h, "exited", IdleFrame)
    /\ UNCHANGED <<catalogVars, shopVars, writer>>

\* ------------------------------------------------------ the shop system
\* The catalog the shop runs on: post 42 of channel 7 (text "4990", with a
\* photo) imported by on_channel_post, then a CSV import of the one row
\* (title=Jeans, price_rub=2.5).
SeedCatalog ==
    { Product(1, "4990", 499000, "file1", "4990", "Obshchee", "NoBrand",
              None, "7", "42"),
      Product(2, "Jeans", 250, None, "", "Obshchee", "NoBrand", None,
              None, None) }

\* context.user_data after /start or /clear_filters: no session filter.
NoFilters == [price_from |-> <<>>, price_to |-> <<>>, size_query |-> None]

\* A chat in which no brand has been chosen yet: no page shown, no "more"
\* button, no listing asked for.
NoChat == [pages |-> <<>>, button |-> <<>>, filter |-> <<>>]

InitHandlers ==
    /\ writer = {}
    /\ pc = [h \in Procs |-> "idle"]
    /\ frame = [h \in Procs |-> IdleFrame]

InitShopTables ==
    /\ cart = {}
    /\ orders = {}
    /\ order_items = {}
    /\ seq_orders = 0
    /\ adds = <<>>
    /\ gen = [u \in AllUsers |-> 0]
    /\ order_gen = <<>>
    /\ ret_ids = <<>>
    /\ wardrobe = {}
    /\ invoices = [u \in AllUsers |-> <<>>]
    /\ user_data = [u \in AllUsers |-> NoFilters]
    /\ chat = [u \in AllUsers |-> NoChat]

Init ==
    /\ products = SeedCatalog
    /\ seq_products = 2
    /\ InitShopTables
    /\ InitHandlers

Next ==
    \E h \in Procs :
        \/ \E u \in Users, p \in 1 .. seq_products : buy(h, u, p)
        \/ ac_execute(h)
        \/ ac_commit(h)
        \/ \E u \in Users : clearcart(h, u)
        \/ cc_execute(h)
        \/ cc_commit(h)
        \/ \E u \in Users : checkout(h, u)
        \/ co_get(h)
        \/ co_insert(h)
        \/ co_items(h)
        \/ co_commit(h)
        \/ co_clear(h)
        \/ co_clear_commit(h)
        \/ store_error(h)
        \/ handler_exit(h)

Spec == Init /\ [][Next]_vars

\* The shop with two users at work: user 1 has put product 1 into the cart
\* and user 2 product 2.
InitUsers ==
    /\ products = SeedCatalog
    /\ seq_products = 2
    /\ cart = {[user_id |-> 1, product_id |-> 1, qty |-> 1],
               [user_id |-> 2, product_id |-> 2, qty |-> 1]}
    /\ adds = (<<1, 1>> :> 1) @@ (<<2, 2>> :> 1)
    /\ orders = {}
    /\ order_items = {}
    /\ seq_orders = 0
    /\ gen = [u \in AllUsers |-> 0]
    /\ order_gen = <<>>
    /\ ret_ids = <<>>
    /\ wardrobe = {}
    /\ invoices = [u \in AllUsers |-> <<>>]
    /\ user_data = [u \in AllUsers |-> NoFilters]
    /\ chat = [u \in AllUsers |-> NoChat]
    /\ InitHandlers

\* The two users press their buttons in turn: the odd updates are user 1's,
\* the even ones user 2's; the handlers run concurrently.
UserOf(h) == IF h % 2 = 1 THEN 1 ELSE 2

NextUsers ==
    \E h \in Procs :
        \/ \E p \in 1 .. seq_products : buy(h, UserOf(h), p)
        \/ ac_execute(h)
        \/ ac_commit(h)
        \/ \E p \in 1 .. seq_products : wardrobe_cb(h, UserOf(h), p)
        \/ wd_execute(h)
        \/ wd_commit(h)
        \/ clearcart(h, UserOf(h))
        \/ cc_execute(h)
        \/ cc_commit(h)
        \/ checkout(h, UserOf(h))
        \/ co_get(h)
        \/ co_insert(h)
        \/ co_items(h)
        \/ co_commit(h)
        \/ co_clear(h)
        \/ co_clear_commit(h)
        \/ handler_exit(h)

SpecUsers == InitUsers /\ [][NextUsers]_vars

\* One user at the cart and the paid checkout.
NextPay ==
    \E h \in Procs :
        \/ \E u \in Users, p \in 1 .. seq_products : buy(h, u, p)
        \/ ac_execute(h)
        \/ ac_commit(h)
        \/ \E u \in Users : clearcart(h, u)
        \/ cc_execute(h)
        \/ cc_commit(h)
        \/ \E u \in Users : checkout_pay(h, u)
        \/ cp_get(h)
        \/ cp_invoice(h)
        \/ \E u \in Users, i \in 1 .. MaxUpdates :
              successful_payment_callback(h, u, i)
        \/ co_get(h)
        \/ co_insert(h)
        \/ co_items(h)
        \/ co_commit(h)
        \/ co_clear(h)
        \/ co_clear_commit(h)
        \/ handler_exit(h)

SpecPay == InitUsers /\ [][NextPay]_vars

\* One user at the wardrobe, the cart and the checkout.
NextWardrobe ==
    \E h \in Procs :
        \/ \E u \in Users, p \in 1 .. seq_products : wardrobe_cb(h, u, p)
        \/ wd_execute(h)
        \/ wd_commit(h)
        \/ \E u \in Users : clearcart(h, u)
        \/ cc_execute(h)
        \/ cc_commit(h)
        \/ \E u \in Users : checkout(h, u)
        \/ co_get(h)
        \/ co_insert(h)
        \/ co_items(h)
        \/ co_commit(h)
        \/ co_clear(h)
        \/ co_clear_commit(h)
        \/ handler_exit(h)

SpecWardrobe == InitUsers /\ [][NextWardrobe]_vars

\* The same system with the updates processed one after the other: a handler
\* starts only when no other handler is in flight.
NextSeq ==
    Next /\ Cardinality({h \in Procs : pc'[h] \notin {"idle", "exited"}}) <= 1

SpecSeq == Init /\ [][NextSeq]_vars

\* ----------------------------------------------------- text extractors
\* A text is the sequence of its characters, each a one-character string;
\* "NL" is a line break, "NBSP" a no-break space, "RUB" the ruble sign,
\* "EN" an en dash.  A Cyrillic letter is written c + its transliteration
\* ("cr" is the letter er of "rub"), its capital C + the same ("Cr").
Digits == {"0", "1", "2", "3", "4", "5", "6", "7", "8", "9"}

UpperAscii ==
    <<"A", "B", "C", "D", "E", "F", "G", "H", "I", "J", "K", "L", "M",
      "N", "O", "P", "Q", "R", "S", "T", "U", "V", "W", "X", "Y", "Z">>

LowerAscii ==
    <<"a", "b", "c", "d", "e", "f", "g", "h", "i", "j", "k", "l", "m",
      "n", "o", "p", "q", "r", "s", "t", "u", "v", "w", "x", "y", "z">>

LatinUpper ==
    {"A", "B", "C", "D", "E", "F", "G", "H", "I", "J", "K", "L", "M",
     "N", "O", "P", "Q", "R", "S", "T", "U", "V", "W", "X", "Y", "Z"}

LatinLower ==
    {"a", "b", "c", "d", "e", "f", "g", "h", "i", "j", "k", "l", "m",
     "n", "o", "p", "q", "r", "s", "t", "u", "v", "w", "x", "y", "z"}

CyrLower ==
    {"ca", "cb", "cc", "ce", "cm", "cn", "co", "cr", "cshch", "ct", "cu", "cv",
     "cy", "cz"}

CyrUpper ==
    {"Ca", "Cb", "Cc", "Ce", "Cm", "Cn", "Co", "Cr", "Cshch", "Ct", "Cu", "Cv",
     "Cy", "Cz"}

\* re.IGNORECASE: the capital Cyrillic letters with their small ones.
CyrFold ==
    [c \in CyrUpper |->
        CASE c = "Ca" -> "ca" [] c = "Cb" -> "cb" [] c = "Cc" -> "cc"
          [] c = "Ce" -> "ce" [] c = "Cm" -> "cm" [] c = "Cn" -> "cn"
          [] c = "Co" -> "co" [] c = "Cr" -> "cr" [] c = "Cshch" -> "cshch"
          [] c = "Ct" -> "ct" [] c = "Cu" -> "cu" [] c = "Cv" -> "cv"
          [] c = "Cy" -> "cy" [] c = "Cz" -> "cz"]

Letters == LatinUpper \cup LatinLower \cup CyrLower \cup CyrUpper

\* \s
SpaceChars == {" ", "NL", "NBSP"}

\* \w (and \d, and _)
WordChars == Letters \cup Digits \cup {"_"}

\* [\d\s\.]
PriceChars == Digits \cup SpaceChars \cup {"."}

TextChars ==
    Letters \cup Digits \cup SpaceChars \cup
        {".", ",", "/", "-", "_", "#", ":", "RUB", "EN"}

\* [A-Za-zA-YAa-ya0-9]
AlnumChars == Letters \cup Digits

\* [A-Za-zA-YAa-ya0-9 ,\/\-]
SizeChars == AlnumChars \cup {" ", ",", "/", "-"}

\* [\s,\/\-]
SizeSeps == SpaceChars \cup {",", "/", "-"}

RECURSIVE RunEnd(_, _, _)
\* The first position from i on whose character is not in class
\* (Len(t) + 1 when there is none): where a greedy class* started at i ends.
RunEnd(t, i, class) ==
    IF i > Len(t) \/ t[i] \notin class THEN i ELSE RunEnd(t, i + 1, class)

\* str.replace("\u00a0", " ")
ReplaceNbsp(text) ==
    [i \in 1 .. Len(text) |-> IF text[i] = "NBSP" THEN " " ELSE text[i]]

RECURSIVE StripLeft(_)
StripLeft(t) ==
    IF t # <<>> /\ Head(t) \in SpaceChars THEN StripLeft(Tail(t)) ELSE t

RECURSIVE StripRight(_)
StripRight(t) ==
    IF t # <<>> /\ t[Len(t)] \in SpaceChars
    THEN StripRight(SubSeq(t, 1, Len(t) - 1)) ELSE t

\* str.strip()
Strip(t) == StripRight(StripLeft(t))

RECURSIVE SplitLines(_)
\* str.splitlines(): the lines without their line breaks; a line break at
\* the very end opens no further line.
SplitLines(t) ==
    IF t = <<>> THEN <<>>
    ELSE LET e == RunEnd(t, 1, TextChars \ {"NL"})
         IN  <<SubSeq(t, 1, e - 1)>> \o SplitLines(SubSeq(t, e + 1, Len(t)))

\* re.IGNORECASE folding of one character.
FoldCase(c) ==
    IF c \in CyrUpper THEN CyrFold[c]
    ELSE IF \E i \in 1 .. 26 : UpperAscii[i] = c
         THEN LowerAscii[CHOOSE i \in 1 .. 26 : UpperAscii[i] = c]
    ELSE c

\* The word (already folded) stands in t at position i, in any case.
WordAt(t, i, word) ==
    /\ i + Len(word) - 1 <= Len(t)
    /\ \A k \in 1 .. Len(word) : FoldCase(t[i + k - 1]) = word[k]

RECURSIVE DigitsValue(_, _)
\* int(re.sub(r"[^\d]", "", s)) continued from the value acc.
DigitsValue(t, acc) ==
    IF t = <<>> THEN acc
    ELSE DigitsValue(Tail(t),
             IF Head(t) \in Digits
             THEN acc * 10 + (CHOOSE d \in 0 .. 9 :
                     <<"0", "1", "2", "3", "4", "5", "6", "7", "8",
                       "9">>[d + 1] = Head(t))
             ELSE acc)

\* \b at position i (between t[i - 1] and t[i]).
WordBoundary(t, i) ==
    (i > 1 /\ t[i - 1] \in WordChars) # (i <= Len(t) /\ t[i] \in WordChars)

\* (?:RUB|rub|rub\.|r)\b at position j: the alternatives in their order.
RubleTokenAt(t, j) ==
    \/ j <= Len(t) /\ t[j] = "RUB" /\ WordBoundary(t, j + 1)
    \/ WordAt(t, j, <<"cr", "cu", "cb">>) /\ WordBoundary(t, j + 3)
    \/ WordAt(t, j, <<"cr", "cu", "cb", ".">>) /\ WordBoundary(t, j + 4)
    \/ WordAt(t, j, <<"cr">>) /\ WordBoundary(t, j + 1)

\* (\d[\d\s\.]{1,12})\s?(?:..)\b with the group starting at d: the group
\* it captures (<<>> when there is no match).  The characters up to the
\* token are all of the class; the group takes them all, or all but a last
\* white space that \s? takes.
PriceGroupAt(t, d) ==
    IF d > Len(t) \/ t[d] \notin Digits THEN <<>>
    ELSE LET j == RunEnd(t, d, PriceChars)
         IN  IF ~RubleTokenAt(t, j) THEN <<>>
             ELSE IF j - d >= 2 /\ j - d <= 13
                  THEN <<SubSeq(t, d, j - 1)>>
             ELSE IF /\ t[j - 1] \in SpaceChars
                     /\ j - 1 - d >= 2 /\ j - 1 - d <= 13
                  THEN <<SubSeq(t, d, j - 2)>>
             ELSE <<>>

\* The first pattern at start position s: with the label (?:cena[:\s]*)
\* when it stands there, else without it.
PricePattern1At(t, s) ==
    LET d == RunEnd(t, s + 4, SpaceChars \cup {":"})
    IN  IF WordAt(t, s, <<"cc", "ce", "cn", "ca">>)
           /\ PriceGroupAt(t, d) # <<>>
        THEN PriceGroupAt(t, d)
        ELSE PriceGroupAt(t, s)

\* The second pattern at start position s: \b, then the group.
PricePattern2At(t, s) ==
    IF WordBoundary(t, s) THEN PriceGroupAt(t, s) ELSE <<>>

\* re.search: the match at the leftmost start position.
PriceSearch(t, second) ==
    LET at(s) == IF second THEN PricePattern2At(t, s)
                 ELSE PricePattern1At(t, s)
        starts == {s \in 1 .. Len(t) : at(s) # <<>>}
    IN  IF starts = {} THEN <<>>
        ELSE at(CHOOSE s \in starts : \A x \in starts : s <= x)

\* re.fullmatch(r"\s*\d[\d\s\.]{1,12}\s*", line.strip())
NumberLine(line) ==
    LET l == Strip(line)
    IN  /\ Len(l) >= 2 /\ Len(l) <= 13
        /\ l[1] \in Digits
        /\ \A i \in 1 .. Len(l) : l[i] \in PriceChars

\* parse_price: the price in kopecks as <<n>>, or <<>> for None.
parse_price(text) ==
    IF text = <<>> THEN <<>>
    ELSE LET t == ReplaceNbsp(text)
             m1 == PriceSearch(t, FALSE)
             m2 == PriceSearch(t, TRUE)
             lines == SplitLines(t)
             nums == {i \in 1 .. Len(lines) : NumberLine(lines[i])}
         IN  IF m1 # <<>> THEN <<DigitsValue(m1[1], 0) * 100>>
             ELSE IF m2 # <<>> THEN <<DigitsValue(m2[1], 0) * 100>>
             ELSE IF nums # {}
                  THEN <<DigitsValue(
                            lines[CHOOSE i \in nums : \A x \in nums : i <= x],
                            0) * 100>>
             ELSE <<>>

\* The longest title and the longest sizes text kept: [:128] and [:120].
TitleMax == 128
SizesMax == 120

\* s[:n]
Take(t, n) == SubSeq(t, 1, IF Len(t) < n THEN Len(t) ELSE n)

\* The placeholder title ("Tovar" in Cyrillic letters).
Placeholder == <<"Ct", "co", "cv", "ca", "cr">>

\* What first_line evaluates to when [][0] raises IndexError.
IndexError == <<"IndexError">>

\* first_line: the placeholder for the empty text, else
\* text.strip().splitlines()[0][:128]; the list is empty when the text is
\* white space only.
first_line(text) ==
    IF text = <<>> THEN Placeholder
    ELSE LET lines == SplitLines(Strip(text))
         IN  IF lines = <<>> THEN IndexError ELSE Take(lines[1], TitleMax)

RECURSIVE FindTags(_, _)
\* re.findall(r"#([\w\d_]+)", text) from position i on.
FindTags(t, i) ==
    IF i > Len(t) THEN <<>>
    ELSE LET e == RunEnd(t, i + 1, WordChars)
         IN  IF t[i] = "#" /\ e > i + 1
             THEN <<SubSeq(t, i + 1, e - 1)>> \o FindTags(t, e)
             ELSE FindTags(t, i + 1)

\* parse_hashtags: the tags in their order (none of them is empty).
parse_hashtags(text) == IF text = <<>> THEN <<>> ELSE FindTags(text, 1)

RECURSIVE CollapseSpaces(_)
\* re.sub(r"\s+", " ", s)
CollapseSpaces(t) ==
    IF t = <<>> THEN <<>>
    ELSE IF Head(t) \in SpaceChars
         THEN <<" ">> \o CollapseSpaces(StripLeft(t))
    ELSE <<Head(t)>> \o CollapseSpaces(Tail(t))

\* (?:razmery?|sizes?) at position s: the position after it, 0 if it is not
\* there.
SizesLabelEnd(t, s) ==
    IF WordAt(t, s, <<"cr", "ca", "cz", "cm", "ce", "cr">>)
    THEN (IF WordAt(t, s + 6, <<"cy">>) THEN s + 7 ELSE s + 6)
    ELSE IF WordAt(t, s, <<"s", "i", "z", "e">>)
         THEN (IF WordAt(t, s + 4, <<"s">>) THEN s + 5 ELSE s + 4)
    ELSE 0

\* The first pattern of parse_sizes at start position s: the group it
\* captures as <<group>>, or <<>>.  After the delimiter \s* takes the white
\* space; the group starts at the next character when that is of its class,
\* and otherwise at the last blank \s* can give back.
SizesGroupAt(t, s) ==
    LET e == SizesLabelEnd(t, s)
        p == RunEnd(t, e, SpaceChars)
        q == RunEnd(t, p + 1, SpaceChars)
        blanks == {r \in p + 1 .. q - 1 : t[r] = " "}
        from(r) == <<SubSeq(t, r, RunEnd(t, r, SizeChars) - 1)>>
    IN  IF e = 0 \/ p > Len(t) \/ t[p] \notin {":", "-", "EN"} THEN <<>>
        ELSE IF q <= Len(t) /\ t[q] \in SizeChars THEN from(q)
        ELSE IF blanks # {}
             THEN from(CHOOSE r \in blanks : \A x \in blanks : x <= r)
        ELSE <<>>

RECURSIVE CountSizeTokens(_, _)
\* The number of tokens when l from i on is tokens of one to three
\* letters or digits separated by runs of separators; -1 when it is not.
CountSizeTokens(l, i) ==
    LET e == RunEnd(l, i, AlnumChars)
        n == RunEnd(l, e, SizeSeps)
        rest == CountSizeTokens(l, n)
    IN  IF e = i \/ e - i > 3 THEN -1
        ELSE IF e > Len(l) THEN 1
        ELSE IF n = e \/ n > Len(l) THEN -1
        ELSE IF rest < 0 THEN -1 ELSE rest + 1

\* re.fullmatch(r"\s*(?:[A-Za-z..0-9]{1,3}[\s,\/\-]+){1,10}
\*                 [A-Za-z..0-9]{1,3}\s*", line.strip())
SizesLine(line) ==
    LET l == Strip(line)
    IN  l # <<>> /\ CountSizeTokens(l, 1) \in 2 .. 11

\* parse_sizes: the sizes text as <<chars>>, or <<>> for None.
parse_sizes(text) ==
    IF text = <<>> THEN <<>>
    ELSE LET t == ReplaceNbsp(text)
             starts == {s \in 1 .. Len(t) : SizesGroupAt(t, s) # <<>>}
             first == CHOOSE s \in starts : \A x \in starts : s <= x
             lines == SplitLines(t)
             ok == {i \in 1 .. Len(lines) : SizesLine(lines[i])}
         IN  IF starts # {}
             THEN <<Take(CollapseSpaces(Strip(SizesGroupAt(t, first)[1])),
                         SizesMax)>>
             ELSE IF ok # {}
                  THEN <<Take(Strip(lines[CHOOSE i \in ok :
                                             \A x \in ok : i <= x]),
                              SizesMax)>>
             ELSE <<>>

\* ------------------------------------------------------------ ingestion
\* The texts that are columns of the tables or are typed by a user, as TLA+
\* strings (which are atomic).
Strings ==
    {"", " ", "4990", "#Jackets #Nike", "Tovar", "Obshchee", "NoBrand",
     "Jackets", "Nike", "S, M, L", "42/44", "M", "_"}

\* A text as the sequence of its characters.
Chars(s) ==
    CASE s = "" -> <<>>
      [] s = " " -> <<" ">>
      [] s = "4990" -> <<"4", "9", "9", "0">>
      [] s = "#Jackets #Nike" ->
             <<"#", "J", "a", "c", "k", "e", "t", "s", " ",
               "#", "N", "i", "k", "e">>
      [] s = "Tovar" -> <<"Ct", "co", "cv", "ca", "cr">>
      [] s = "Obshchee" -> <<"Co", "cb", "cshch", "ce", "ce">>
      [] s = "NoBrand" -> <<"N", "o", "B", "r", "a", "n", "d">>
      [] s = "Jackets" -> <<"J", "a", "c", "k", "e", "t", "s">>
      [] s = "Nike" -> <<"N", "i", "k", "e">>
      [] s = "S, M, L" -> <<"S", ",", " ", "M", ",", " ", "L">>
      [] s = "42/44" -> <<"4", "2", "/", "4", "4">>
      [] s = "M" -> <<"M">>
      [] s = "_" -> <<"_">>

\* The string of a sequence of characters.
Str(chars) == CHOOSE s \in Strings : Chars(s) = chars

\* The fields both handlers take from the caption: raised tells that
\* first_line raised, which ends the handler.
Fields(tags, title, price, sizes) ==
    [raised |-> title = IndexError,
     category |-> IF Len(tags) >= 1 THEN tags[1] ELSE Chars("Obshchee"),
     brand |-> IF Len(tags) >= 2 THEN tags[2] ELSE Chars("NoBrand"),
     title |-> title,
     price |-> price,
     sizes |-> sizes]

\* price if price is not None else 0
PriceOrZero(price) == IF price # <<>> THEN price[1] ELSE 0

\* parse_price(caption) or 0
PriceOr0(price) == IF price # <<>> /\ price[1] # 0 THEN price[1] ELSE 0

\* The fields import_from_forward (lines 602-610) takes from the caption.
ForwardFields(caption) ==
    Fields(parse_hashtags(caption), first_line(caption),
           PriceOrZero(parse_price(caption)), parse_sizes(caption))

\* The fields on_channel_post (lines 657-662) takes from the caption.
ChannelFields(caption) ==
    Fields(parse_hashtags(caption), first_line(caption),
           PriceOr0(parse_price(caption)), parse_sizes(caption))

\* A sizes value as a column: None, or the string.
SizesColumn(sizes) == IF sizes = <<>> THEN None ELSE Str(sizes[1])

\* Product(id=0, title=title, price=.., photo_file_id=.., descr=caption, ..)
FieldsProduct(f, photo_file_id, descr, source_chat_id, source_msg_id) ==
    Product(0, Str(f.title), f.price, photo_file_id, descr,
            Str(f.category), Str(f.brand), SizesColumn(f.sizes),
            source_chat_id, source_msg_id)

\* Python truthiness of an optional id: None and 0 are false.
Truthy(id) == id \notin {None, "0"}

\* A forwarded or channel message: caption/text, photo, and where it comes
\* from (chat id and message id of the channel post; None when not known).
Message(caption, photo, chat_id, message_id) ==
    [caption |-> caption, photo |-> photo, chat_id |-> chat_id,
     message_id |-> message_id]

Messages ==
    { Message("4990", "file1", "7", "42"),          \* post 42 of channel 7
      Message("#Jackets #Nike", None, "7", "42"),   \* post 42 after an edit
      Message("4990", None, "7", None),     \* forward without a message id
      Message("", None, "7", "43"),         \* neither text nor photo
      Message(" ", "file1", "7", "44") }    \* a caption of one blank

\* import_from_forward, lines 602-634: the Product built from the message.
ForwardProduct(msg) ==
    FieldsProduct(ForwardFields(Chars(msg.caption)), msg.photo, msg.caption,
                  IF Truthy(msg.chat_id) THEN msg.chat_id ELSE None,
                  IF Truthy(msg.chat_id) /\ Truthy(msg.message_id)
                  THEN msg.message_id ELSE None)

\* on_channel_post, lines 657-679: the Product built from the channel post.
ChannelProduct(msg) ==
    FieldsProduct(ChannelFields(Chars(msg.caption)), msg.photo, msg.caption,
                  msg.chat_id, msg.message_id)

\* The table without idx_source_msg: no insert is ever ignored.
SourceConflictNoIndex(p) == FALSE

\* CREATE UNIQUE INDEX idx_source_msg ON products(source_chat_id,
\* source_msg_id): a new row conflicts with a row that has the same pair;
\* NULLs are distinct from each other in a unique index.
SourceConflict(p) ==
    \E r \in products :
        /\ r.source_chat_id # None /\ r.source_msg_id # None
        /\ r.source_chat_id = p.source_chat_id
        /\ r.source_msg_id = p.source_msg_id

\* The lookup after an ignored insert finding nothing (= instead of IS on a
\* mistyped parameter): add_product returns 0.
SelectBySourceNothing(p) == {}

\* SELECT id FROM products WHERE source_chat_id IS ? AND source_msg_id IS ?
SelectBySource(p) ==
    { r.id : r \in { x \in products :
                       /\ x.source_chat_id = p.source_chat_id
                       /\ x.source_msg_id = p.source_msg_id } }

\* add_product: cur = await db.execute(INSERT OR IGNORE INTO products ..).
\* The statement takes the write lock.  cur.lastrowid is the rowid of the
\* last row this (new) connection inserted: the new id, or 0 when the insert
\* was ignored.  sqlite_sequence advances in both cases.
ap_execute(h) ==
    /\ pc[h] = "ap_execute"
    /\ Acquire(h)
    /\ Goto(h, "ap_commit",
            [lastrowid |-> IF SourceConflict(frame[h].p) THEN 0
                           ELSE seq_products + 1] @@ frame[h])
    /\ UNCHANGED <<catalogVars, shopVars>>

\* pid = await add_product(p): the handler calls add_product.
call_add_product(h, fr, p) ==
    Goto(h, "ap_execute", [p |-> p, seq0 |-> seq_products] @@ fr)

HasSource(p) == p.source_chat_id # None /\ p.source_msg_id # None

SourceOf(p) == <<p.source_chat_id, p.source_msg_id>>

\* add_product(p) returned pid: the history of the ids returned per source.
RecordReturn(p, pid) ==
    ret_ids' =
        IF HasSource(p)
        THEN [k \in DOMAIN ret_ids \cup {SourceOf(p)} |->
                IF k = SourceOf(p)
                THEN (IF k \in DOMAIN ret_ids THEN ret_ids[k] ELSE <<>>)
                     \o <<pid>>
                ELSE ret_ids[k]]
        ELSE ret_ids

\* What the caller does with the id add_product returned.
after_add_product(h, pid) ==
    LET fr == [pid |-> pid] @@ frame[h]
    IN  /\ RecordReturn(fr.p, pid)
        /\ CASE fr.op = "import_from_forward" ->
               \* msg.reply_text("Tovar dobavlen (id=..) ..")
               Goto(h, "done",
                    [outcome |-> "none", ret |-> <<>>,
                     reply |-> [text |-> "added", pid |-> pid,
                                category |-> fr.p.category,
                                brand |-> fr.p.brand, price |-> fr.p.price,
                                sizes |-> fr.p.sizes]] @@ fr)
          [] fr.op = "on_channel_post" ->
               \* send_message(ADMIN_CHAT_ID, "Importirovan post .. id=..")
               Goto(h, "done",
                    [outcome |-> "none", ret |-> <<>>,
                     reply |-> [text |-> "imported", pid |-> pid,
                                category |-> fr.p.category,
                                brand |-> fr.p.brand]] @@ fr)
          [] fr.op = "import_csv_file" ->
               \* if pid: cnt += 1; next row
               Goto(h, "csv_row",
                    [fr EXCEPT !.cnt = IF pid # 0 THEN @ + 1 ELSE @,
                               !.rows = Tail(@)])

\* add_product: await db.commit(); if cur.lastrowid: return cur.lastrowid
ap_commit(h) ==
    /\ pc[h] = "ap_commit"
    /\ LET fr == frame[h]
       IN  /\ products' = IF fr.lastrowid # 0
                          THEN products \cup {[fr.p EXCEPT !.id = fr.lastrowid]}
                          ELSE products
           /\ seq_products' = seq_products + 1
           /\ IF fr.lastrowid # 0
              THEN after_add_product(h, fr.lastrowid)
              ELSE Goto(h, "ap_select", fr) /\ UNCHANGED ret_ids
    /\ Release(h)
    /\ UNCHANGED shopVars

\* add_product: cur2 = await db.execute(SELECT id ..); row = fetchone();
\*              return row[0] if row else 0
ap_select(h) ==
    /\ pc[h] = "ap_select"
    /\ LET ids == SelectBySource(frame[h].p)
       IN  IF ids = {} THEN after_add_product(h, 0)
           ELSE \E id \in ids : after_add_product(h, id)
    /\ UNCHANGED <<products, seq_products, shopVars, writer>>

\* import_from_forward: a forwarded message in a private chat.
import_from_forward(h, msg) ==
    /\ Arrives(h) /\ h <= MaxPosts
    /\ IF ForwardFields(Chars(msg.caption)).raised
       THEN Goto(h, "done", [op |-> "import_from_forward",
                             outcome |-> "error", ret |-> <<>>])
       ELSE call_add_product(h, [op |-> "import_from_forward"],
                             ForwardProduct(msg))
    /\ UNCHANGED <<catalogVars, shopVars, writer>>

\* on_channel_post: a post of a channel the bot is administrator of.
\* The chat id and the message id of a channel post are always present.
on_channel_post(h, msg) ==
    /\ Arrives(h) /\ h <= MaxPosts
    /\ Truthy(msg.chat_id) /\ Truthy(msg.message_id)
    /\ IF msg.caption = "" /\ msg.photo = None
       THEN Goto(h, "done", [op |-> "on_channel_post",
                             outcome |-> "none", ret |-> <<>>])
       ELSE IF ChannelFields(Chars(msg.caption)).raised
            THEN Goto(h, "done", [op |-> "on_channel_post",
                                  outcome |-> "error", ret |-> <<>>])
       ELSE call_add_product(h, [op |-> "on_channel_post"],
                             ChannelProduct(msg))
    /\ UNCHANGED <<catalogVars, shopVars, writer>>

\* ------------------------------------------------------- Python floats
\* A float (IEEE 754 binary64, positive and normal, or zero) is the record
\* [m, e] of its 53 significand bits, most significant first, and the
\* number of them behind the binary point: its value is m / 2^e.  Zero has
\* no bits.
SignificandBits == 53

FloatZero == [m |-> <<>>, e |-> 0]

RECURSIVE BitsOf(_)
\* The binary digits of a natural number (none for 0).
BitsOf(n) == IF n = 0 THEN <<>> ELSE Append(BitsOf(n \div 2), n % 2)

RECURSIVE ValueOf(_)
\* The natural number of binary digits.
ValueOf(bits) ==
    IF bits = <<>> THEN 0
    ELSE 2 * ValueOf(SubSeq(bits, 1, Len(bits) - 1)) + bits[Len(bits)]

RECURSIVE PlusOne(_)
\* bits + 1
PlusOne(bits) ==
    IF bits = <<>> THEN <<1>>
    ELSE IF bits[Len(bits)] = 0
         THEN SubSeq(bits, 1, Len(bits) - 1) \o <<1>>
    ELSE PlusOne(SubSeq(bits, 1, Len(bits) - 1)) \o <<0>>

RECURSIVE TimesSmall(_, _, _)
\* bits * k + carry, exactly.
TimesSmall(bits, k, carry) ==
    IF carry = 0 /\ bits = <<>> THEN <<>>
    ELSE LET last == IF bits = <<>> THEN 0 ELSE bits[Len(bits)]
             front == IF bits = <<>> THEN <<>>
                      ELSE SubSeq(bits, 1, Len(bits) - 1)
         IN  Append(TimesSmall(front, k, (last * k + carry) \div 2),
                    (last * k + carry) % 2)

\* Round to nearest, ties to even: the exact value is bits (at least 53 of
\* them, the first one 1) with e of them behind the point, plus a rest
\* below the last bit when sticky.
RoundNearestEven(bits, e, sticky) ==
    LET kept == SubSeq(bits, 1, SignificandBits)
        low == SubSeq(bits, SignificandBits + 1, Len(bits))
        half == low # <<>> /\ low[1] = 1
        more == sticky \/ \E i \in 2 .. Len(low) : low[i] = 1
        up == half /\ (more \/ kept[SignificandBits] = 1)
        m == IF up THEN PlusOne(kept) ELSE kept
    IN  IF Len(m) > SignificandBits
        THEN [m |-> SubSeq(m, 1, SignificandBits), e |-> e - Len(low) - 1]
        ELSE [m |-> m, e |-> e - Len(low)]

RECURSIVE LongDivision(_, _, _)
\* The quotient of rest by d, digit by digit, from [q, r, e]: the digits so
\* far, the remainder and the binary places behind the point; until q has
\* one bit more than a significand.
LongDivision(rest, d, s) ==
    IF Len(s.q) > SignificandBits /\ rest = <<>> THEN s
    ELSE LET r2 == 2 * s.r + (IF rest = <<>> THEN 0 ELSE Head(rest))
             b == IF r2 >= d THEN 1 ELSE 0
         IN  LongDivision(IF rest = <<>> THEN <<>> ELSE Tail(rest), d,
                          [q |-> IF s.q = <<>> /\ b = 0 THEN <<>>
                                 ELSE Append(s.q, b),
                           r |-> r2 - b * d,
                           e |-> IF rest = <<>> THEN s.e + 1 ELSE s.e])

\* n / d for naturals n and d > 0, correctly rounded: the float of the
\* division int / int, and of the decimal text n / 10^k.
FloatDiv(n, d) ==
    IF n = 0 THEN FloatZero
    ELSE LET dv == LongDivision(BitsOf(n), d, [q |-> <<>>, r |-> 0, e |-> 0])
         IN  RoundNearestEven(dv.q, dv.e, dv.r # 0)

\* x * k for a float x and a natural k > 0, correctly rounded.
FloatTimes(x, k) ==
    IF x.m = <<>> THEN FloatZero
    ELSE RoundNearestEven(TimesSmall(x.m, k, 0), x.e, FALSE)

\* int(x): truncation (of a float below 2^31).
IntOfFloat(x) ==
    IF x.m = <<>> \/ x.e >= SignificandBits THEN 0
    ELSE ValueOf(SubSeq(x.m, 1, SignificandBits - x.e))

\* ---------------------------------------------------------- CSV import
\* The imported files, as the sequences of their data rows: the columns
\* title and price_rub (the other columns are absent and get their
\* defaults).  One good row; a malformed row then a good one; two good rows;
\* one malformed row.
CsvFiles ==
    { <<[title |-> "Jeans", price_rub |-> "2.5"]>>,
      <<[title |-> "", price_rub |-> "abc"],
        [title |-> "Jeans", price_rub |-> "2.5"]>>,
      <<[title |-> "Jeans", price_rub |-> "2.5"],
        [title |-> "Jeans", price_rub |-> "2.5"]>>,
      <<[title |-> "", price_rub |-> "abc"]>> }

\* The prices of the round trip, in minor units.
MaxPrice == 31

\* A decimal text is n / 10^k written with k >= 1 places: "0.29", "1.0".
Pow10(k) == IF k = 1 THEN 10 ELSE IF k = 2 THEN 100 ELSE 1000

Digits10(n) == IF n < 10 THEN 1 ELSE IF n < 100 THEN 2 ELSE 3

Zeros(k) == IF k <= 0 THEN "" ELSE IF k = 1 THEN "0" ELSE "00"

DecimalText(n, k) ==
    LET frac == n % Pow10(k)
    IN  ToString(n \div Pow10(k)) \o "." \o Zeros(k - Digits10(frac))
            \o ToString(frac)

\* int(x * 10^k) of the exact product.
ExactFloor(x, k) ==
    IF x.m = <<>> THEN 0
    ELSE LET bits == TimesSmall(x.m, Pow10(k), 0)
         IN  IF Len(bits) <= x.e THEN 0
             ELSE ValueOf(SubSeq(bits, 1, Len(bits) - x.e))

\* The decimals with k places next to x that float() reads as x.
ReadAs(x, k) ==
    {n \in {ExactFloor(x, k), ExactFloor(x, k) + 1} :
        FloatDiv(n, Pow10(k)) = x}

\* repr(x), which csv.writer writes for a float: the shortest decimal text
\* that float() reads as x (here of one or two places).
Repr(x) ==
    IF ReadAs(x, 1) # {} THEN DecimalText(CHOOSE n \in ReadAs(x, 1) : TRUE, 1)
    ELSE DecimalText(CHOOSE n \in ReadAs(x, 2) : TRUE, 2)

\* The decimal texts of the prices: those of one and two places, and the
\* prices written with half a minor unit more ("0.295").
Decimals ==
    {<<n, k>> : n \in 0 .. MaxPrice, k \in {1, 2}}
        \cup {<<10 * p + 5, 3>> : p \in 0 .. MaxPrice}

\* float(text) of a decimal text: the nearest float to n / 10^k.
FloatOfText ==
    [t \in {DecimalText(d[1], d[2]) : d \in Decimals} |->
        LET d == CHOOSE d \in Decimals : DecimalText(d[1], d[2]) = t
        IN  FloatDiv(d[1], Pow10(d[2]))]

\* int(float(str(price_rub).replace(",", ".")) * 100); <<>> when float()
\* raises ValueError.
CsvPrice(price_rub) ==
    CASE price_rub = "2.5" -> <<250>>
      [] price_rub = "" -> <<0>>
      [] price_rub \in DOMAIN FloatOfText ->
           <<IntOfFloat(FloatTimes(FloatOfText[price_rub], 100))>>
      [] OTHER -> <<>>

\* row.get(name) or default
Col(row, name, default) ==
    IF name \in DOMAIN row /\ row[name] # "" THEN row[name] ELSE default

\* import_csv_file, lines 717-725: the Product built from a well-formed row.
CsvProduct(row) ==
    Product(0, Col(row, "title", "Tovar"), CsvPrice(row.price_rub)[1],
            Col(row, "photo_file_id", None), Col(row, "descr", ""),
            Col(row, "category", "Obshchee"), Col(row, "brand", "NoBrand"),
            Col(row, "sizes", None), None, None)

RECURSIVE SkipMalformedAbort(_)
\* The loop with "break" for "continue": a malformed row ends the import.
SkipMalformedAbort(rows) ==
    IF rows = <<>> \/ CsvPrice(Head(rows).price_rub) # <<>> THEN rows
    ELSE <<>>

RECURSIVE SkipMalformed(_)
\* except Exception: continue -- rows whose price does not parse are skipped
SkipMalformed(rows) ==
    IF rows = <<>> \/ CsvPrice(Head(rows).price_rub) # <<>> THEN rows
    ELSE SkipMalformed(Tail(rows))

\* The locals of import_csv_file that live across the rows: the reader with
\* the rows left, the count, and (where it is kept) the file.
CsvLocals(fr) ==
    [k \in DOMAIN fr \cap {"op", "rows", "cnt", "file"} |-> fr[k]]

\* The loop of import_csv_file up to its next await: the next add_product,
\* or the end of the file and the reply with the count.
csv_continue(h, fr) ==
    LET rest == SkipMalformed(fr.rows)
    IN  IF rest = <<>>
        THEN Goto(h, "done", [outcome |-> "value", ret |-> <<fr.cnt>>,
                              rows |-> rest] @@ fr)
        ELSE call_add_product(h, [rows |-> rest] @@ CsvLocals(fr),
                              CsvProduct(Head(rest)))

\* import_csv_file: the administrator sends a CSV file.
import_csv_file(h, file) ==
    /\ Arrives(h) /\ h <= MaxPosts
    /\ csv_continue(h, [op |-> "import_csv_file", rows |-> file, cnt |-> 0])
    /\ UNCHANGED <<catalogVars, shopVars, writer>>

csv_row(h) ==
    /\ pc[h] = "csv_row"
    /\ csv_continue(h, frame[h])
    /\ UNCHANGED <<catalogVars, shopVars, writer>>

\* The store after init_db: all tables empty.
InitIngest ==
    /\ products = {}
    /\ seq_products = 0
    /\ InitShopTables
    /\ InitHandlers

NextIngest ==
    \E h \in Procs :
        \/ \E msg \in Messages : import_from_forward(h, msg)
        \/ \E msg \in Messages : on_channel_post(h, msg)
        \/ \E file \in CsvFiles : import_csv_file(h, file)
        \/ csv_row(h)
        \/ ap_execute(h)
        \/ ap_commit(h)
        \/ ap_select(h)
        \/ handler_exit(h)

SpecIngest == InitIngest /\ [][NextIngest]_vars

\* ----------------------------------------------- the import of one batch
\* The longest imported file, in data rows.
MaxRows == 3

\* The rows of a batch: a complete row, a row without a title, a row
\* without a price, and a row whose price is no number.
CsvRowKinds ==
    { [title |-> "Jeans", price_rub |-> "2.5"],
      [title |-> "", price_rub |-> "2.5"],
      [title |-> "Jeans", price_rub |-> ""],
      [title |-> "Jeans", price_rub |-> "abc"] }

CsvBatches == UNION {[1 .. n -> CsvRowKinds] : n \in 0 .. MaxRows}

\* import_csv_file on a batch: the first update; the frame keeps the file.
import_csv_batch(h, file) ==
    /\ Arrives(h) /\ h = 1
    /\ csv_continue(h, [op |-> "import_csv_file", rows |-> file, cnt |-> 0,
                        file |-> file])
    /\ UNCHANGED <<catalogVars, shopVars, writer>>

\* A channel post arrives while the batch is imported.
post_during_import(h, msg) == h = 2 /\ on_channel_post(h, msg)

NextCsv ==
    \E h \in Procs :
        \/ \E file \in CsvBatches : import_csv_batch(h, file)
        \/ \E msg \in Messages : post_during_import(h, msg)
        \/ csv_row(h)
        \/ ap_execute(h)
        \/ ap_commit(h)
        \/ handler_exit(h)

SpecCsv == InitIngest /\ [][NextCsv]_vars

\* ----------------------------------------------------------- CSV export
\* csv.writer: None is written as the empty field.
CsvField(v) == IF v = None THEN "" ELSE v

\* export_csv, lines 696-698: the row of a product, its price in rubles.
ExportRow(p) ==
    [id |-> ToString(p.id), title |-> p.title,
     price_rub |-> Repr(FloatDiv(p.price, 100)),
     photo_file_id |-> CsvField(p.photo_file_id), descr |-> p.descr,
     category |-> p.category, brand |-> p.brand, sizes |-> CsvField(p.sizes),
     source_chat_id |-> CsvField(p.source_chat_id),
     source_msg_id |-> CsvField(p.source_msg_id)]

RECURSIVE ExportRows(_)
\* SELECT .. FROM products ORDER BY id DESC, row by row
ExportRows(ps) ==
    IF ps = {} THEN <<>>
    ELSE LET top == CHOOSE p \in ps : \A q \in ps : q.id <= p.id
         IN  <<ExportRow(top)>> \o ExportRows(ps \ {top})

\* export_csv: the administrator asks for the catalogue; the file is sent
\* as a document.
export_csv(h) ==
    /\ Arrives(h) /\ h = 2
    /\ Goto(h, "done", [op |-> "export_csv", outcome |-> "none", ret |-> <<>>,
                        document |-> ExportRows(products)])
    /\ UNCHANGED <<catalogVars, shopVars, writer>>

\* The administrator imports a file with one row: a product whose price has
\* half a minor unit more than p ("0.295" for p = 29), stored as p.
import_priced_row(h, p) ==
    import_csv_batch(h, <<[title |-> "Jeans",
                           price_rub |-> DecimalText(10 * p + 5, 3)]>>)

\* The administrator sends the exported document back to import_csv_file.
import_exported(h) ==
    /\ Arrives(h) /\ h = 3
    /\ \E g \in Procs :
          /\ pc[g] = "done" /\ frame[g].op = "export_csv"
          /\ csv_continue(h, [op |-> "import_csv_file",
                              rows |-> frame[g].document, cnt |-> 0,
                              file |-> frame[g].document])
    /\ UNCHANGED <<catalogVars, shopVars, writer>>

NextRoundTrip ==
    \E h \in Procs :
        \/ \E p \in 0 .. MaxPrice : import_priced_row(h, p)
        \/ export_csv(h)
        \/ import_exported(h)
        \/ csv_row(h)
        \/ ap_execute(h)
        \/ ap_commit(h)
        \/ handler_exit(h)

SpecRoundTrip == InitIngest /\ [][NextRoundTrip]_vars

\* ------------------------------------------------------------- listing
\* SQLite's LIKE folds the case of the ASCII letters only.
FoldAscii(c) ==
    IF \E i \in 1 .. 26 : UpperAscii[i] = c
    THEN LowerAscii[CHOOSE i \in 1 .. 26 : UpperAscii[i] = c]
    ELSE c

RECURSIVE LikeMatch(_, _)
\* text LIKE pattern: % matches any run of characters, _ any one character,
\* every other character itself up to the case of ASCII letters.
LikeMatch(pattern, text) ==
    IF pattern = <<>> THEN text = <<>>
    ELSE IF Head(pattern) = "%"
         THEN \/ LikeMatch(Tail(pattern), text)
              \/ text # <<>> /\ LikeMatch(pattern, Tail(text))
    ELSE IF Head(pattern) = "_"
         THEN text # <<>> /\ LikeMatch(Tail(pattern), Tail(text))
    ELSE /\ text # <<>>
         /\ FoldAscii(Head(pattern)) = FoldAscii(Head(text))
         /\ LikeMatch(Tail(pattern), Tail(text))

\* "sizes LIKE ?" with the parameter f"%{size_query}%"; NULL LIKE x is NULL.
SizesLike(sizes, size_query) ==
    /\ sizes # None
    /\ LikeMatch(<<"%">> \o Chars(size_query) \o <<"%">>, Chars(sizes))

\* Python truthiness of an optional string: None and "" are false.
StrTruthy(x) == x \notin {None, ""}

\* The arguments of list_products other than offset and limit; an absent
\* price bound is <<>>.
Filter(category, brand, price_from, price_to, size_query) ==
    [category |-> category, brand |-> brand, price_from |-> price_from,
     price_to |-> price_to, size_query |-> size_query]

\* list_products, lines 216-218: the size test of the WHERE clause.
WhereSize(p, f) ==
    StrTruthy(f.size_query) => SizesLike(p.sizes, f.size_query)

\* list_products, lines 204-220: the WHERE clause built from the arguments.
Where(p, f) ==
    /\ StrTruthy(f.category) => p.category = f.category
    /\ StrTruthy(f.brand) => p.brand = f.brand
    /\ f.price_from # <<>> => p.price >= f.price_from[1]
    /\ f.price_to # <<>> => p.price <= f.price_to[1]
    /\ WhereSize(p, f)

RECURSIVE OrderByIdDesc(_)
\* ORDER BY id DESC
OrderByIdDesc(rows) ==
    IF rows = {} THEN <<>>
    ELSE LET top == CHOOSE r \in rows : \A x \in rows : x.id <= r.id
         IN  <<top>> \o OrderByIdDesc(rows \ {top})

\* The window with the page number passed as the offset:
\* LIMIT ? OFFSET (? / limit).
LimitOffsetPageNo(rows, limit, offset) ==
    SubSeq(rows, offset \div limit + 1,
           IF offset \div limit + limit < Len(rows)
           THEN offset \div limit + limit ELSE Len(rows))

\* LIMIT ? OFFSET ?
LimitOffset(rows, limit, offset) ==
    SubSeq(rows, offset + 1, IF offset + limit < Len(rows)
                             THEN offset + limit ELSE Len(rows))

\* list_products: the rows of the SELECT as Products.
list_products(f, offset, limit) ==
    LimitOffset(OrderByIdDesc({p \in products : Where(p, f)}), limit,
                offset)

\* The page size of the listings: show_products_by_brand passes limit=6 and
\* its "more" button asks for offset + 6.
PageLimit == 6

\* Row i of the listed catalogs, as a CSV import with the columns category,
\* brand, price_rub and sizes writes it; the ids have gaps (sqlite_sequence
\* also advances on ignored inserts).
ListedProduct(i) ==
    Product(i + i \div 3, "Tovar", (i % 4) * 100, None, "",
            IF i % 7 = 0 THEN "Obshchee" ELSE "Jackets",
            IF i % 5 = 0 THEN "NoBrand" ELSE "Nike",
            CASE i % 3 = 0 -> None
              [] i % 3 = 1 -> "S, M, L"
              [] OTHER -> "42/44",
            None, None)

Catalog(n) == {ListedProduct(i) : i \in 1 .. n}

\* The filters the listings are asked with.
Filters ==
    {Filter(c, b, pf, pt, sz) :
        c \in {None, "Jackets"}, b \in {None, "Nike"},
        pf \in {<<>>, <<0>>, <<200>>}, pt \in {<<>>, <<200>>},
        sz \in {None, "M", "_"}}

\* A listing is opened: list_products(.., offset=0, limit=6) is called.
list_first(h, f) ==
    /\ Arrives(h) /\ h = 1
    /\ Goto(h, "lp_page", [op |-> "list_products", filter |-> f,
                           offset |-> 0, pages |-> <<>>])
    /\ UNCHANGED <<catalogVars, shopVars, writer>>

\* list_products returns the page at the offset; after a non-empty page the
\* next one is asked for at offset + 6, an empty page ends the listing.
lp_page(h) ==
    /\ pc[h] = "lp_page"
    /\ LET fr == frame[h]
           page == list_products(fr.filter, fr.offset, PageLimit)
           pages == Append(fr.pages, page)
       IN  IF page = <<>>
           THEN Goto(h, "done", [outcome |-> "value", ret |-> pages] @@
                                [fr EXCEPT !.pages = pages])
           ELSE Goto(h, "lp_page",
                     [fr EXCEPT !.pages = pages,
                                !.offset = @ + PageLimit])
    /\ UNCHANGED <<catalogVars, shopVars, writer>>

\* The store holds one of the catalogs; no ingestion runs meanwhile.
InitList ==
    /\ \E n \in 0 .. MaxCatalog :
           products = Catalog(n) /\ seq_products = n + n \div 3
    /\ InitShopTables
    /\ InitHandlers

NextList ==
    \E h \in Procs :
        \/ \E f \in Filters : list_first(h, f)
        \/ lp_page(h)
        \/ handler_exit(h)

SpecList == InitList /\ [][NextList]_vars

\* ------------------------------------------------------------ browsing
\* on_text "/filter a b": the price bounds of the session, in rubles; an
\* absent bound is <<>>.
filter_cmd(h, user_id, from_rub, to_rub) ==
    /\ Arrives(h)
    /\ user_data' =
           [user_data EXCEPT ![user_id].price_from =
                                 IF from_rub = <<>> THEN <<>>
                                 ELSE <<from_rub[1] * 100>>,
                             ![user_id].price_to =
                                 IF to_rub = <<>> THEN <<>>
                                 ELSE <<to_rub[1] * 100>>]
    /\ Goto(h, "done", [op |-> "filter", outcome |-> "none", ret |-> <<>>])
    /\ UNCHANGED <<catalogVars, cart, orders, order_items, seq_orders, adds,
                   gen, order_gen, wardrobe, invoices, chat, writer>>

\* on_text "/size L"
size_cmd(h, user_id, size_query) ==
    /\ Arrives(h)
    /\ user_data' = [user_data EXCEPT ![user_id].size_query = size_query]
    /\ Goto(h, "done", [op |-> "size", outcome |-> "none", ret |-> <<>>])
    /\ UNCHANGED <<catalogVars, cart, orders, order_items, seq_orders, adds,
                   gen, order_gen, wardrobe, invoices, chat, writer>>

\* on_text "/clear_filters"
clear_filters_cmd(h, user_id) ==
    /\ Arrives(h)
    /\ user_data' = [user_data EXCEPT ![user_id] = NoFilters]
    /\ Goto(h, "done", [op |-> "clear_filters", outcome |-> "none",
                        ret |-> <<>>])
    /\ UNCHANGED <<catalogVars, cart, orders, order_items, seq_orders, adds,
                   gen, order_gen, wardrobe, invoices, chat, writer>>

\* on_text with the name of a brand of the selected category: the first
\* page is asked for with the filters of the session.
select_brand(h, user_id, category, brand) ==
    /\ Arrives(h)
    /\ \E p \in products : p.category = category /\ p.brand = brand
    /\ Goto(h, "sb_list",
            [op |-> "select_brand", user_id |-> user_id, offset |-> 0,
             filter |-> Filter(category, brand,
                               user_data[user_id].price_from,
                               user_data[user_id].price_to,
                               user_data[user_id].size_query)])
    /\ UNCHANGED <<catalogVars, shopVars, writer>>

\* on_cb "morebrand:<category>:<brand>:<offset>": the button under the last
\* page; show_products_by_brand is called with category, brand and offset.
morebrand(h, user_id) ==
    /\ Arrives(h)
    /\ chat[user_id].button # <<>>
    /\ LET data == chat[user_id].button[1]
       IN  Goto(h, "sb_list",
                [op |-> "morebrand", user_id |-> user_id,
                 offset |-> data.offset,
                 filter |-> Filter(data.category, data.brand, <<>>, <<>>,
                                   None)])
    /\ UNCHANGED <<catalogVars, shopVars, writer>>

\* show_products_by_brand: items = await list_products(.., limit=6, ..);
\* "empty" for no items at offset 0, else the cards and the button for
\* offset + 6.
sb_list(h) ==
    /\ pc[h] = "sb_list"
    /\ LET fr == frame[h]
           items == list_products(fr.filter, fr.offset, PageLimit)
       IN  IF items = <<>> /\ fr.offset = 0
           THEN /\ chat' = [chat EXCEPT ![fr.user_id] =
                               [pages |-> <<>>, button |-> <<>>,
                                filter |-> <<fr.filter>>]]
                /\ Goto(h, "done", [outcome |-> "none", ret |-> <<>>,
                                    reply |-> "empty"] @@ fr)
           ELSE /\ chat' = [chat EXCEPT ![fr.user_id] =
                               [pages |-> IF fr.offset = 0 THEN <<items>>
                                          ELSE Append(@.pages, items),
                                button |->
                                    <<[category |-> fr.filter.category,
                                       brand |-> fr.filter.brand,
                                       offset |-> fr.offset + PageLimit]>>,
                                filter |-> IF fr.offset = 0 THEN <<fr.filter>>
                                           ELSE @.filter]]
                /\ Goto(h, "done", [outcome |-> "none", ret |-> <<>>,
                                    reply |-> items] @@ fr)
    /\ UNCHANGED <<catalogVars, cart, orders, order_items, seq_orders, adds,
                   gen, order_gen, wardrobe, invoices, user_data, writer>>

\* One user browsing one of the catalogs.
NextBrowse ==
    \E h \in Procs :
        \/ \E u \in Users, a \in {<<>>, <<0>>, <<2>>}, b \in {<<>>, <<2>>} :
              filter_cmd(h, u, a, b)
        \/ \E u \in Users, sz \in {None, "M"} : size_cmd(h, u, sz)
        \/ \E u \in Users : clear_filters_cmd(h, u)
        \/ \E u \in Users : select_brand(h, u, "Jackets", "Nike")
        \/ \E u \in Users : morebrand(h, u)
        \/ sb_list(h)
        \/ handler_exit(h)

SpecBrowse == InitList /\ [][NextBrowse]_vars

\* ------------------------------------------------- the extractors at work
\* The longest post text built from the alphabet.
MaxText == 3

\* A digit, a blank, a line break, the ruble sign, the Cyrillic letter er,
\* a hash sign and a Latin letter.
Alphabet == {"5", " ", "NL", "RUB", "cr", "#", "x"}

\* The post of four lines: the tags, the title, the price, the sizes
\* ("#Jackets #Nike", "Winter Jacket", "Cena: 4 990 RUB", "Razmery: S, M, L").
ScenarioText ==
    <<"#", "J", "a", "c", "k", "e", "t", "s", " ", "#", "N", "i", "k", "e",
      "NL",
      "W", "i", "n", "t", "e", "r", " ", "J", "a", "c", "k", "e", "t", "NL",
      "Cc", "ce", "cn", "ca", ":", " ", "4", " ", "9", "9", "0", " ", "RUB",
      "NL",
      "Cr", "ca", "cz", "cm", "ce", "cr", "cy", ":", " ",
      "S", ",", " ", "M", ",", " ", "L">>

\* The post texts: every text of at most MaxText characters of the
\* alphabet, and the post of four lines.
Texts ==
    UNION {[1 .. n -> Alphabet] : n \in 0 .. MaxText} \cup {ScenarioText}

IngestOps == {"import_from_forward", "on_channel_post"}

\* A post with the text caption arrives at import_from_forward or at
\* on_channel_post; on_channel_post returns when there is neither a text
\* nor a photo.
post_arrives(h, op, caption, photo) ==
    /\ Arrives(h) /\ h = 1
    /\ IF op = "on_channel_post" /\ caption = <<>> /\ photo = None
       THEN Goto(h, "done", [op |-> op, caption |-> caption, photo |-> photo,
                             outcome |-> "none", ret |-> <<>>])
       ELSE Goto(h, "ex_hashtags",
                 [op |-> op, caption |-> caption, photo |-> photo])
    /\ UNCHANGED <<catalogVars, shopVars, writer>>

\* tags = parse_hashtags(caption)
ex_hashtags(h) ==
    /\ pc[h] = "ex_hashtags"
    /\ Goto(h, "ex_first_line",
            [tags |-> parse_hashtags(frame[h].caption)] @@ frame[h])
    /\ UNCHANGED <<catalogVars, shopVars, writer>>

\* title = first_line(caption); an IndexError leaves the handler.
ex_first_line(h) ==
    /\ pc[h] = "ex_first_line"
    /\ LET title == first_line(frame[h].caption)
       IN  IF title = IndexError
           THEN Finish(h, "error", <<>>)
           ELSE Goto(h, "ex_price", [title |-> title] @@ frame[h])
    /\ UNCHANGED <<catalogVars, shopVars, writer>>

\* price = parse_price(caption)
ex_price(h) ==
    /\ pc[h] = "ex_price"
    /\ Goto(h, "ex_sizes",
            [price |-> parse_price(frame[h].caption)] @@ frame[h])
    /\ UNCHANGED <<catalogVars, shopVars, writer>>

\* sizes = parse_sizes(caption)
ex_sizes(h) ==
    /\ pc[h] = "ex_sizes"
    /\ Goto(h, "ex_product",
            [sizes |-> parse_sizes(frame[h].caption)] @@ frame[h])
    /\ UNCHANGED <<catalogVars, shopVars, writer>>

\* p = Product(id=0, title=title, price=.., category=.., brand=.., sizes=..)
ex_product(h) ==
    /\ pc[h] = "ex_product"
    /\ Goto(h, "done",
            [p |-> IF frame[h].op = "on_channel_post"
                   THEN ChannelFields(frame[h].caption)
                   ELSE ForwardFields(frame[h].caption),
             outcome |-> "none", ret |-> <<>>] @@ frame[h])
    /\ UNCHANGED <<catalogVars, shopVars, writer>>

NextExtract ==
    \E h \in Procs :
        \/ \E op \in IngestOps, caption \in Texts, photo \in {None, "file1"} :
               post_arrives(h, op, caption, photo)
        \/ ex_hashtags(h)
        \/ ex_first_line(h)
        \/ ex_price(h)
        \/ ex_sizes(h)
        \/ ex_product(h)
        \/ handler_exit(h)

SpecExtract == InitIngest /\ [][NextExtract]_vars

TypeOK ==
    /\ writer \subseteq Procs /\ Cardinality(writer) <= 1
    /\ Cardinality(orders) <= MaxUpdates
    /\ \A u \in AllUsers : gen[u] <= MaxUpdates
    /\ \A r \in cart : r.qty >= 1 /\ r.qty <= MaxUpdates

\* ================================================================ claims
\* Sum of price * qty over a set of rows (cart snapshot lines or order_items).
RECURSIVE Sigma(_)
Sigma(rows) ==
    IF rows = {} THEN 0
    ELSE LET r == CHOOSE x \in rows : TRUE
         IN  r.qty * r.price + Sigma(rows \ {r})

Done(h, op) == pc[h] = "done" /\ frame[h].op = op

CartRows(user_id) == {r \in cart : r.user_id = user_id}

ItemsOf(order_id) == {i \in order_items : i.order_id = order_id}

RowsOfSource(k) ==
    {r \in products : <<r.source_chat_id, r.source_msg_id>> = k}

\* C1 (as claimed): at most one Order per cart filling -- no two Orders of a
\* user are created from snapshots of the same cart contents, i.e. with no
\* DELETE of that user's cart between the two snapshot reads.
C1_AtMostOneOrderPerCart ==
    \A o1, o2 \in orders :
        (o1.user_id = o2.user_id /\ order_gen[o1.id] = order_gen[o2.id])
            => o1.id = o2.id

\* C2: the products table holds at most one row per (source_chat_id,
\* source_msg_id) pair with both components non-null, whatever forward
\* imports, channel-post imports and CSV imports have run.
C2_UniqueSource ==
    \A r1, r2 \in products :
        (/\ r1.source_chat_id # None /\ r1.source_msg_id # None
         /\ r1.source_chat_id = r2.source_chat_id
         /\ r1.source_msg_id = r2.source_msg_id) => r1 = r2

\* C2 witness: a handler's INSERT for a post was ignored because a row with
\* the post's source pair was there, and that row is the only one of the pair.
C2_Witness ==
    \E h \in Procs :
        /\ pc[h] = "done" /\ "lastrowid" \in DOMAIN frame[h]
        /\ frame[h].lastrowid = 0
        /\ HasSource(frame[h].p)
        /\ Cardinality(RowsOfSource(SourceOf(frame[h].p))) = 1

C3_SameId ==
    \A k \in DOMAIN ret_ids :
        \A i \in 1 .. Len(ret_ids[k]) :
            ret_ids[k][i] # 0 /\ ret_ids[k][i] = ret_ids[k][1]

C3_NoNewRow ==
    \A h \in Procs :
        (/\ pc[h] = "ap_commit" /\ pc'[h] # "ap_commit"
         /\ HasSource(frame[h].p)
         /\ SourceOf(frame[h].p) \in DOMAIN ret_ids)
            => Cardinality(products') = Cardinality(products)

\* C3: add_product is idempotent on the source identity: all calls with the
\* same non-null (source_chat_id, source_msg_id) return the same non-zero id,
\* and a call made after one has returned for that pair leaves the number of
\* product rows unchanged.
C3_UpsertIdempotent == []C3_SameId /\ [][C3_NoNewRow]_vars

\* C3 witness: add_product has returned twice for one source pair.
C3_Witness ==
    \E k \in DOMAIN ret_ids :
        Len(ret_ids[k]) >= 2 /\ Cardinality(RowsOfSource(k)) = 1

\* C4: when import_from_forward and on_channel_post have ingested the same
\* post (same channel id and message id), exactly one product row exists for
\* that pair and both handlers obtained the id of that row.
C4_ConcurrentIngest ==
    \A h1, h2 \in Procs :
        (/\ Done(h1, "import_from_forward") /\ Done(h2, "on_channel_post")
         /\ "pid" \in DOMAIN frame[h1] /\ "pid" \in DOMAIN frame[h2]
         /\ HasSource(frame[h1].p)
         /\ SourceOf(frame[h1].p) = SourceOf(frame[h2].p))
            => /\ Cardinality(RowsOfSource(SourceOf(frame[h1].p))) = 1
               /\ \A r \in RowsOfSource(SourceOf(frame[h1].p)) :
                      frame[h1].pid = r.id /\ frame[h2].pid = r.id

\* C4 witness: the two handlers ran concurrently -- both called add_product
\* for the post before the INSERT of either was executed -- and both ended.
C4_Witness ==
    \E h1, h2 \in Procs :
        /\ Done(h1, "import_from_forward") /\ Done(h2, "on_channel_post")
        /\ "pid" \in DOMAIN frame[h1] /\ "pid" \in DOMAIN frame[h2]
        /\ HasSource(frame[h1].p)
        /\ SourceOf(frame[h1].p) = SourceOf(frame[h2].p)
        /\ frame[h1].seq0 = 0 /\ frame[h2].seq0 = 0

C5_Result ==
    \A h \in Procs :
        (Done(h, "create_order") /\ frame[h].outcome = "value") =>
            LET fr == frame[h]
                oid == fr.ret[1]
            IN  /\ fr.ret[2] = Sigma(fr.items)
                /\ CartRows(fr.user_id) = {}
                /\ {o \in orders : o.id = oid} =
                       {[id |-> oid, user_id |-> fr.user_id,
                         total_price |-> fr.ret[2], status |-> "NEW"]}
                /\ {[pid |-> i.product_id, qty |-> i.qty, price |-> i.price] :
                       i \in ItemsOf(oid)}
                     = {[pid |-> l.pid, qty |-> l.qty, price |-> l.price] :
                          l \in fr.items}
                /\ Cardinality(ItemsOf(oid)) = Cardinality(fr.items)

C5_Snapshot ==
    \A h \in Procs :
        (pc[h] = "co_get" /\ pc'[h] = "co_insert") =>
            /\ {[pid |-> l.pid, qty |-> l.qty] : l \in frame'[h].items}
                 = {[pid |-> r.product_id, qty |-> r.qty] :
                      r \in CartRows(frame[h].user_id)}
            /\ \A l \in frame'[h].items :
                   \E p \in products : p.id = l.pid /\ p.price = l.price
            /\ Cardinality(frame'[h].items)
                 = Cardinality(CartRows(frame[h].user_id))

C5_OneNewOrder ==
    /\ orders \subseteq orders'
    /\ Cardinality(orders') <= Cardinality(orders) + 1
    /\ orders' # orders =>
           \E h \in Procs : pc[h] = "co_commit" /\ pc'[h] = "co_clear"
    /\ \A h \in Procs :
           (pc[h] = "co_get" /\ pc'[h] = "co_insert")
               => (orders' = orders /\ order_items' = order_items)

\* C5: with the updates handled one at a time, create_order on a non-empty
\* cart returns (order_id, total) with total = sum of unit price * quantity
\* over the cart snapshot; afterwards the user's cart is empty, exactly one
\* new Order (status NEW, that total) exists, and it has one OrderItem per
\* cart line with the line's product id, quantity and unit price.
C5_CheckoutCreatesOrder ==
    []C5_Result /\ [][C5_Snapshot /\ C5_OneNewOrder]_vars

\* C5 witness: a checkout of a cart with two lines ended with its result.
C5_Witness ==
    \E h \in Procs :
        /\ Done(h, "create_order") /\ frame[h].outcome = "value"
        /\ Cardinality(frame[h].items) = 2

\* C6: for every committed Order the order_items rows of its id are there
\* and their price * qty sum to its total_price, and every order_items row
\* belongs to a committed Order.
C6_ItemsSumToTotal ==
    /\ \A o \in orders :
           ItemsOf(o.id) # {} /\ Sigma(ItemsOf(o.id)) = o.total_price
    /\ \A i \in order_items : \E o \in orders : o.id = i.order_id

\* C6 witness: an Order with a line of quantity 2 is committed while the
\* checkout that created it has not cleared the cart yet.
C6_Witness ==
    \E h \in Procs :
        /\ pc[h] = "co_clear"
        /\ \E o \in orders : o.id = frame[h].order_id
        /\ \E i \in ItemsOf(frame[h].order_id) : i.qty = 2

\* C7: create_order on an empty cart snapshot returns None (unless the read
\* itself raises) and leaves orders, order_items and cart unchanged.
C7_EmptyCart ==
    [][\A h \in Procs :
          (/\ pc[h] = "co_get" /\ pc'[h] # "co_get"
           /\ CartRows(frame[h].user_id) = {})
              => /\ pc'[h] = "done"
                 /\ frame'[h].outcome \in {"none", "error"}
                 /\ UNCHANGED <<orders, order_items, cart, seq_orders>>]_vars

\* C7 witness: a checkout found the cart empty and returned None while
\* an Order of an earlier checkout exists.
C7_Witness ==
    \E h \in Procs :
        /\ Done(h, "create_order") /\ frame[h].outcome = "none"
        /\ orders # {}

\* C8 (as claimed): a checkout that ended with a store failure either
\* committed no Order, or committed it and its cart was cleared: never is
\* its Order committed while the cart filling it was made from remains.
C8_AllOrNothing ==
    \A h \in Procs :
        (/\ Done(h, "create_order") /\ frame[h].outcome = "error"
         /\ "committed" \in DOMAIN frame[h])
            => gen[frame[h].user_id] > frame[h].snap_gen

\* C9 (as claimed): the report of a handler that ingested an already
\* existing post differs from the report of the handler that created it.
C9_ReportsDuplicate ==
    \A h1, h2 \in Procs :
        (/\ pc[h1] = "done" /\ pc[h2] = "done"
         /\ "reply" \in DOMAIN frame[h1] /\ "reply" \in DOMAIN frame[h2]
         /\ frame[h1].op = frame[h2].op
         /\ frame[h1].p = frame[h2].p
         /\ frame[h1].lastrowid # 0 /\ frame[h2].lastrowid = 0)
            => frame[h1].reply # frame[h2].reply

\* C10: the cart holds, per (user, product), no row when no add has been
\* committed since the last DELETE and otherwise exactly one row whose qty
\* is the number of adds committed since; every cart row has qty >= 1.
C10_CartCountsAdds ==
    /\ \A u \in AllUsers, p \in ProductIds :
           LET rows == {r \in cart : r.user_id = u /\ r.product_id = p}
           IN  IF AddsOf(u, p) = 0 THEN rows = {}
               ELSE /\ Cardinality(rows) = 1
                    /\ \A r \in rows : r.qty = AddsOf(u, p)
    /\ \A r \in cart : r.qty >= 1

\* C10 witness: two add-to-cart handlers for the same (user, product) ran
\* concurrently (both started before either committed) and the row has qty 2.
C10_Witness ==
    \E h1, h2 \in Procs :
        /\ h1 # h2
        /\ Done(h1, "add_to_cart") /\ Done(h2, "add_to_cart")
        /\ frame[h1].outcome = "none" /\ frame[h2].outcome = "none"
        /\ frame[h1].user_id = frame[h2].user_id
        /\ frame[h1].product_id = frame[h2].product_id
        /\ frame[h1].adds0 = 0 /\ frame[h2].adds0 = 0
        /\ \E r \in cart : /\ r.user_id = frame[h1].user_id
                           /\ r.product_id = frame[h1].product_id
                           /\ r.qty = 2

\* C11 (as claimed): the cart rows a checkout deletes are the lines of its
\* Order -- every row removed by the clear_cart of a checkout that returns
\* its result has an order_items row of that Order with the same product and
\* the same quantity (nothing added meanwhile is deleted without being
\* ordered).
C11_DeletesOnlyOrdered ==
    [][\A h \in Procs :
          (/\ pc[h] = "co_clear_commit" /\ pc'[h] = "done"
           /\ frame'[h].outcome = "value")
              => \A r \in cart \ cart' :
                     \E i \in ItemsOf(frame[h].order_id) :
                         i.product_id = r.product_id /\ i.qty = r.qty]_vars

C12_Step ==
    /\ orders \subseteq orders'
    /\ order_items \subseteq order_items'
    /\ \A o \in orders' \ orders :
           /\ o.status = "NEW"
           /\ o.id \notin {x.id : x \in orders}
           /\ \E h \in Procs :
                  /\ frame[h].op = "create_order"
                  /\ pc[h] = "co_commit" /\ pc'[h] = "co_clear"
                  /\ o.id = frame[h].order_id
                  /\ o.user_id = frame[h].user_id
    /\ \A i \in order_items' \ order_items :
           /\ i.order_id \notin {x.id : x \in orders}
           /\ \E o \in orders' \ orders : o.id = i.order_id

C13_NoOpOnDuplicate ==
    [][/\ products \subseteq products'
       /\ \A h \in Procs :
              (/\ pc[h] = "ap_commit" /\ pc'[h] # "ap_commit"
               /\ HasSource(frame[h].p)
               /\ RowsOfSource(SourceOf(frame[h].p)) # {})
                  => products' = products]_vars

\* C13 witness: a post was ingested again with another text and another
\* photo; the row of its source pair still has the first text.
C13_Witness ==
    \E h \in Procs :
        /\ pc[h] = "done" /\ "lastrowid" \in DOMAIN frame[h]
        /\ frame[h].lastrowid = 0
        /\ HasSource(frame[h].p)
        /\ \E r \in RowsOfSource(SourceOf(frame[h].p)) :
               /\ r.descr # frame[h].p.descr
               /\ r.photo_file_id # frame[h].p.photo_file_id
               /\ r.category # frame[h].p.category

\* The ids on page i of a listing.
PageIds(pages, i) == {pages[i][k].id : k \in 1 .. Len(pages[i])}

Listing(h) == frame[h].op = "list_products"

\* C14: for an unchanged catalog and a fixed filter the pages at offsets 0,
\* 6, 12, ... hold no product twice, neither within a page nor on two pages,
\* every row is a row of the catalog, and once the listing has ended the
\* pages together hold every product the WHERE clause selects.
C14_PagesPartition ==
    \A h \in Procs :
        Listing(h) =>
            LET pages == frame[h].pages
            IN  /\ \A i \in 1 .. Len(pages) :
                       /\ Cardinality(PageIds(pages, i)) = Len(pages[i])
                       /\ Len(pages[i]) <= PageLimit
                       /\ \A k \in 1 .. Len(pages[i]) :
                              pages[i][k] \in products
                /\ \A i, j \in 1 .. Len(pages) :
                       i # j => PageIds(pages, i) \cap PageIds(pages, j) = {}
                /\ pc[h] = "done" =>
                       UNION {PageIds(pages, i) : i \in 1 .. Len(pages)}
                         = {p.id : p \in {x \in products :
                                            Where(x, frame[h].filter)}}

\* C14 witness: a listing with a brand filter ended after a full page, a
\* shorter second page and the empty third one, and the catalog has a
\* product the filter leaves out.
C14_Witness ==
    \E h \in Procs :
        /\ Listing(h) /\ pc[h] = "done"
        /\ frame[h].filter.brand = "Nike"
        /\ Len(frame[h].pages) = 3
        /\ Len(frame[h].pages[1]) = PageLimit
        /\ Len(frame[h].pages[2]) \in 1 .. PageLimit - 1
        /\ \E p \in products : p.brand # "Nike"

\* text contains the characters of query as a substring.
Contains(text, query) ==
    \E i \in 0 .. Len(text) - Len(query) :
        SubSeq(text, i + 1, i + Len(query)) = query

\* The products a filter asks for: every field that is present holds.
Satisfies(p, f) ==
    /\ f.category # None => p.category = f.category
    /\ f.brand # None => p.brand = f.brand
    /\ f.price_from # <<>> => p.price >= f.price_from[1]
    /\ f.price_to # <<>> => p.price <= f.price_to[1]
    /\ f.size_query # None =>
           p.sizes # None /\ Contains(Chars(p.sizes), Chars(f.size_query))

\* C15 (as claimed): the page at offset 6 * (i - 1) is exactly the products
\* that satisfy every present filter field and have between offset + 1 and
\* offset + 6 satisfying products with an id not below theirs, in descending
\* order of id.
C15_ListsExactlyTheSatisfying ==
    \A h \in Procs :
        Listing(h) =>
            LET pages == frame[h].pages
                sat == {p \in products : Satisfies(p, frame[h].filter)}
                rank(p) == Cardinality({x \in sat : x.id >= p.id})
            IN  \A i \in 1 .. Len(pages) :
                    /\ {pages[i][k] : k \in 1 .. Len(pages[i])}
                         = {p \in sat : rank(p) \in
                              PageLimit * (i - 1) + 1 .. PageLimit * i}
                    /\ \A k \in 1 .. Len(pages[i]) - 1 :
                           pages[i][k].id > pages[i][k + 1].id

\* A handler of a post that has ended (returned or raised), with the text of
\* the post in its frame.
PostDone(h) ==
    /\ pc[h] = "done"
    /\ frame[h].op \in IngestOps
    /\ "caption" \in DOMAIN frame[h]

\* C16 (as claimed): for every post text both ingestion paths build a
\* Product whose category is the first hashtag or else the category
\* sentinel, whose brand is the second hashtag or else NoBrand, whose title
\* is first_line(text), whose price is parse_price(text) or 0 when that is
\* absent, and whose sizes are parse_sizes(text) or absent.
C16_ProductPerRules ==
    \A h \in Procs :
        PostDone(h) =>
            LET text == frame[h].caption
                tags == parse_hashtags(text)
                price == parse_price(text)
            IN  /\ "p" \in DOMAIN frame[h]
                /\ frame[h].p.category =
                       IF Len(tags) >= 1 THEN tags[1] ELSE Chars("Obshchee")
                /\ frame[h].p.brand =
                       IF Len(tags) >= 2 THEN tags[2] ELSE Chars("NoBrand")
                /\ frame[h].p.title = first_line(text)
                /\ frame[h].p.title # IndexError
                /\ frame[h].p.price = IF price = <<>> THEN 0 ELSE price[1]
                /\ frame[h].p.sizes = parse_sizes(text)

\* C17 (as claimed): ingestion rejects nothing -- every forwarded post and
\* every channel post, also one with an empty text and no photo, ends with a
\* Product passed to add_product and a product id obtained from it.
C17_NoRejection ==
    \A h \in Procs :
        (pc[h] = "done" /\ frame[h].op \in IngestOps) =>
            "p" \in DOMAIN frame[h] /\ "pid" \in DOMAIN frame[h]

\* C18 (as claimed): the post of four lines gives the Product with category
\* Jackets, brand Nike, title "Winter Jacket", price 499000 and sizes
\* "S, M, L".
C18_Scenario ==
    \A h \in Procs :
        (PostDone(h) /\ frame[h].caption = ScenarioText) =>
            /\ "p" \in DOMAIN frame[h]
            /\ frame[h].p.category = Chars("Jackets")
            /\ frame[h].p.brand = Chars("Nike")
            /\ frame[h].p.title =
                   <<"W", "i", "n", "t", "e", "r", " ",
                     "J", "a", "c", "k", "e", "t">>
            /\ frame[h].p.price = 499000
            /\ frame[h].p.sizes = <<Chars("S, M, L")>>

\* The maximal runs of digits of a text, as pairs <<first, behind the last>>.
DigitRuns(t) ==
    {<<d, RunEnd(t, d, Digits)>> :
        d \in {i \in 1 .. Len(t) :
                 t[i] \in Digits /\ (i = 1 \/ t[i - 1] \notin Digits)}}

\* A ruble token stands at position j as a word of its own: the ruble sign,
\* or rub, rub. or r (in either case) with no letter, digit or underscore
\* behind it.
RubleWordAt(t, j) ==
    \/ j <= Len(t) /\ t[j] = "RUB"
    \/ \E word \in {<<"cr", "cu", "cb">>, <<"cr", "cu", "cb", ".">>, <<"cr">>} :
           /\ WordAt(t, j, word)
           /\ (j + Len(word) > Len(t) \/ t[j + Len(word)] \notin WordChars)

\* The text has one number, and a ruble token directly behind it.
DirectAmount(t) ==
    /\ Cardinality(DigitRuns(t)) = 1
    /\ \A r \in DigitRuns(t) : RubleWordAt(t, r[2])

\* The text has a number with a ruble token behind it (digits, blanks and
\* dots may stand between).
CurrencyMarked(t) ==
    \E d \in 1 .. Len(t) :
        /\ t[d] \in Digits
        /\ LET j == RunEnd(ReplaceNbsp(t), d, PriceChars)
           IN  \/ j <= Len(t) /\ t[j] = "RUB"
               \/ WordAt(t, j, <<"cr">>)

\* The text has a line of digits, blanks and dots only, with a digit.
StandaloneNumber(t) ==
    \E i \in 1 .. Len(SplitLines(t)) :
        LET line == SplitLines(t)[i]
        IN  /\ \E k \in 1 .. Len(line) : line[k] \in Digits
            /\ \A k \in 1 .. Len(line) :
                   line[k] \in PriceChars \cup {"NBSP"}

\* C19 (as claimed): for a text with an amount directly followed by a ruble
\* token (also an amount of one digit, also a token at the end of the line)
\* parse_price returns the amount times 100; for a text with no
\* currency-marked number and no standalone numeric line it returns None.
C19_PriceOfAmount ==
    \A h \in Procs :
        (frame[h].op \in IngestOps /\ "price" \in DOMAIN frame[h]) =>
            LET text == frame[h].caption
            IN  /\ DirectAmount(text) =>
                       \A r \in DigitRuns(text) :
                           frame[h].price =
                               <<DigitsValue(SubSeq(text, r[1], r[2] - 1), 0)
                                   * 100>>
                /\ (~CurrencyMarked(text) /\ ~StandaloneNumber(text)) =>
                       frame[h].price = <<>>

\* The first line of a text that is not white space only, as <<line>>; <<>>
\* when the text has no such line.
FirstNonEmptyLine(text) ==
    LET lines == SplitLines(text)
        full == {i \in 1 .. Len(lines) : Strip(lines[i]) # <<>>}
    IN  IF full = {} THEN <<>>
        ELSE <<lines[CHOOSE i \in full : \A x \in full : i <= x]>>

\* C20 (as claimed): the extractors are total -- no text, the empty one and
\* the ones of white space and line breaks included, makes parse_hashtags,
\* first_line, parse_price or parse_sizes raise; and first_line returns the
\* first non-empty line cut to 128 characters (white space around it
\* aside), or the placeholder when there is none.
C20_ExtractorsTotal ==
    \A h \in Procs :
        (frame[h].op \in IngestOps /\ "caption" \in DOMAIN frame[h]) =>
            /\ pc[h] = "done" => frame[h].outcome # "error"
            /\ "title" \in DOMAIN frame[h] =>
                   LET line == FirstNonEmptyLine(frame[h].caption)
                   IN  IF line = <<>> THEN frame[h].title = Placeholder
                       ELSE Strip(frame[h].title)
                              = Strip(Take(Strip(line[1]), TitleMax))

\* The rows of a file that import_csv_file can read: the price column is
\* empty or a number.
WellFormed(file) ==
    {i \in 1 .. Len(file) : file[i].price_rub \in {"", "2.5"}}

\* The products in the catalog that came from a row like row: the title or
\* the placeholder, the price in kopecks or 0, every other column its
\* default, no source.
RowProducts(row) ==
    {p \in products :
        /\ p.title = (IF row.title = "" THEN "Tovar" ELSE row.title)
        /\ p.price = (IF row.price_rub = "2.5" THEN 250 ELSE 0)
        /\ p.photo_file_id = None /\ p.descr = ""
        /\ p.category = "Obshchee" /\ p.brand = "NoBrand"
        /\ p.sizes = None
        /\ p.source_chat_id = None /\ p.source_msg_id = None}

\* C21: an import never aborts.  When import_csv_file has ended, it has
\* returned the count (no exception left it); the count is the number of
\* well-formed rows of the file, malformed rows before or between them
\* notwithstanding; it is the number of rows the import added to the
\* catalog; and for every well-formed row the catalog holds as many
\* products with its columns (missing ones replaced by the defaults) as the
\* file has rows like it.
C21_ImportNeverAborts ==
    \A h \in Procs :
        (Done(h, "import_csv_file") /\ "file" \in DOMAIN frame[h]) =>
            LET file == frame[h].file
            IN  /\ frame[h].outcome = "value"
                /\ frame[h].ret = <<Cardinality(WellFormed(file))>>
                /\ Cardinality({p \in products : p.source_chat_id = None})
                     = frame[h].ret[1]
                /\ \A i \in WellFormed(file) :
                       Cardinality(RowProducts(file[i]))
                         = Cardinality({j \in WellFormed(file) :
                                          file[j] = file[i]})

\* C21 witness: the import of a file with a well-formed row, then a
\* malformed one, then a row without a title has ended, while a channel
\* post was imported too.
C21_Witness ==
    \E h \in Procs :
        /\ Done(h, "import_csv_file") /\ "file" \in DOMAIN frame[h]
        /\ Len(frame[h].file) = 3
        /\ WellFormed(frame[h].file) = {1, 3}
        /\ frame[h].file[3].title = ""
        /\ frame[h].ret = <<2>>
        /\ \E p \in products : p.source_chat_id # None

\* C22: exporting a product's row and importing that row back yields a
\* product of exactly the same price: when the import of an exported file
\* has ended, every row of the file has a new product with the price of the
\* product the row was written from.
Exported(fr) == {p \in products : \E i \in 1 .. Len(fr.file) : fr.file[i].id = ToString(p.id)}

ReImports == {h \in Procs : pc[h] = "done" /\ frame[h].op = "import_csv_file" /\ frame[h].file # <<>> /\ "id" \in DOMAIN frame[h].file[1]}

C22_PriceRoundTrip ==
    \A h \in ReImports :
        \A p \in Exported(frame[h]) :
            \E q \in products \ Exported(frame[h]) :
                q.title = p.title /\ q.price = p.price

\* C23: saving a (user, product) pair to the wardrobe any number of times
\* leaves exactly one entry for it, and no step removes a wardrobe entry,
\* clearing the cart and checking out included.
C23_WardrobeKept ==
    [][/\ wardrobe \subseteq wardrobe'
       /\ \A r1, r2 \in wardrobe' :
             r1.user_id = r2.user_id /\ r1.product_id = r2.product_id
                 => r1 = r2
       /\ \A h \in Procs :
             pc[h] = "wd_commit" /\ pc'[h] = "done" =>
                 Cardinality({r \in wardrobe' :
                                 /\ r.user_id = frame[h].user_id
                                 /\ r.product_id = frame[h].product_id}) = 1]_vars

\* C23 witness: the same pair has been saved twice and is in the wardrobe
\* once, while a checkout has committed its Order and is about to clear the
\* cart.
C23_Witness ==
    \E h1, h2, h3 \in Procs :
        /\ h1 # h2
        /\ Done(h1, "add_to_wardrobe") /\ Done(h2, "add_to_wardrobe")
        /\ frame[h1].user_id = frame[h2].user_id
        /\ frame[h1].product_id = frame[h2].product_id
        /\ pc[h3] = "co_clear_commit"
        /\ frame[h3].user_id = frame[h1].user_id
        /\ orders # {}
        /\ Cardinality(wardrobe) = 1

\* C27: a step of a handler working for user u leaves the cart rows, the
\* wardrobe rows, the Orders and the order items of every other user as
\* they are, and the Order it makes is read from u's cart alone.
Mover(h) == pc[h] # pc'[h]

ActingUser(h) == IF pc[h] = "idle" THEN frame'[h].user_id ELSE frame[h].user_id

Others(tbl, u) == {r \in tbl : r.user_id # u}

ItemsOfOthers(tbl, items, u) == {i \in items : \E o \in tbl : o.id = i.order_id /\ o.user_id # u}

C27_Isolation ==
    [][\A h \in Procs :
          Mover(h) =>
              /\ Others(cart', ActingUser(h)) = Others(cart, ActingUser(h))
              /\ Others(wardrobe', ActingUser(h))
                     = Others(wardrobe, ActingUser(h))
              /\ Others(orders', ActingUser(h)) = Others(orders, ActingUser(h))
              /\ ItemsOfOthers(orders', order_items', ActingUser(h))
                     = ItemsOfOthers(orders, order_items, ActingUser(h))
              /\ pc[h] = "co_get" =>
                     \A l \in frame'[h].items :
                         \E r \in cart :
                             /\ r.user_id = ActingUser(h)
                             /\ r.product_id = l.pid /\ r.qty = l.qty
              /\ \A o \in orders' \ orders :
                     /\ o.user_id = ActingUser(h)
                     /\ o.total_price = SumLines(frame[h].items)
                     /\ \A i \in order_items' \ order_items :
                            /\ i.order_id = o.id
                            /\ \E l \in frame[h].items : l.pid = i.product_id]_vars

\* C27 witness: three handlers in flight at once: user 1's checkout has
\* committed the Order and not yet cleared the cart, user 2's DELETE holds
\* the write lock, and user 1's next add waits for it; both carts have a
\* row.
C27_Witness ==
    /\ pc[1] = "co_clear" /\ pc[2] = "cc_commit" /\ pc[3] = "ac_execute"
    /\ \E o \in orders : o.user_id = 1
    /\ \E r \in cart : r.user_id = 1
    /\ \E r \in cart : r.user_id = 2

\* C24: the Order made on a payment confirmation has the total of the
\* invoice that was paid, whatever the user added to or cleared from the
\* cart between the invoice and the payment.
Paid(h) == Done(h, "successful_payment")

C24_OrderTotalIsInvoice ==
    \A h \in Procs :
        Paid(h) /\ frame[h].outcome = "value" =>
            \A o \in orders :
                o.id = frame[h].ret[1] => o.total_price = frame[h].paid

\* C25: every payment confirmation ends with exactly one Order of the paying
\* user.
C25_PaymentHasOrder ==
    \A h \in Procs :
        Paid(h) =>
            /\ frame[h].outcome = "value"
            /\ Cardinality({o \in orders :
                               /\ o.id = frame[h].ret[1]
                               /\ o.user_id = frame[h].user_id}) = 1

\* C26: the pages shown after a brand was selected are pages of one
\* listing, the one of the first page with its category, brand, price and
\* size filters: no product on a page fails the filters and no product is
\* shown twice.
RECURSIVE Concat(_)
Concat(pages) == IF pages = <<>> THEN <<>> ELSE Head(pages) \o Concat(Tail(pages))

Shown(u) == Concat(chat[u].pages)

C26_SameListing ==
    \A u \in Users :
        chat[u].pages # <<>> =>
            /\ \A i \in 1 .. Len(Shown(u)) :
                   Where(Shown(u)[i], chat[u].filter[1])
            /\ \A i, j \in 1 .. Len(Shown(u)) :
                   Shown(u)[i].id = Shown(u)[j].id => i = j

====
